---- MODULE Spec2Model ----
(***************************************************************************)
(* NBA Precision Analytics v2: the prediction engine (predictionEngine.ts, *)
(* src/unnamed/part_005) and the daily-pick selector of the game analysis  *)
(* service (src/unnamed/part_006).                                         *)
(*                                                                         *)
(* Numbers.  The code computes in IEEE doubles.  The model computes in     *)
(* exact rationals [n, d]: d > 0 is a finite number n/d in lowest terms,   *)
(* d = 0 with n = 0 is NaN (0/0) and d = 0 with n # 0 is +/-Infinity.      *)
(* Usage shares and play-type frequencies are entered in hundredths,       *)
(* points and market lines in tenths.                                      *)
(***************************************************************************)
EXTENDS Integers, Sequences, FiniteSets, TLC

VARIABLES
    pc,               \* which operation has been applied last ("init" before any)
    roster,           \* teamRoster: PlayerData[] (id, usage)
    injuries,         \* injuries: Injury[] (playerId, status)
    adjustments,      \* result of calculateParetoAdjustment: id -> multiplier
    corePlayerOut,    \* result of hasParetoPlayerOut
    player,           \* player: PlayerData handed to calculatePlayerProjection
    opponentDefense,  \* TeamDefenseStats | undefined
    isB2B,            \* back-to-back flag
    vegasLine,        \* market line (tenths) | undefined
    projection,       \* ProjectionResult of calculatePlayerProjection
    props,            \* PlayerPropLine[] handed to matchProjectionsWithProps
    matched,          \* ProjectionResult[] of matchProjectionsWithProps
    matchup,          \* result of calculateMatchupModifier
    edgeIn,           \* arguments of calculateEdge
    edgeOut,          \* result of calculateEdge
    homeProjections,  \* PlayerProjection[] of the home team
    awayProjections,  \* PlayerProjection[] of the away team
    probData,         \* { homeWinProb } in tenths of a percent
    dailyPick,        \* DailyPick | null
    game,             \* the scheduled game getGameAnalysis looks up | undefined
    gameSummary,      \* GameSummary | null
    injuryReport,     \* injuries of the report: (playerId, teamId, status)
    homeTeamRoster,   \* TeamRoster | null of the home team
    awayTeamRoster,   \* TeamRoster | null of the away team
    homeSeasonalStats, \* Map<string, PlayerSeasonalStats>, in insertion order
    awaySeasonalStats,
    homePlayers,      \* TeamPlayer[] built for the home team | not built
    awayPlayers,      \* TeamPlayer[] built for the away team | not built
    analysis          \* GameAnalysis | null returned by getGameAnalysis

vars == <<pc, roster, injuries, adjustments, corePlayerOut, player,
          opponentDefense, isB2B, vegasLine, projection, props, matched,
          matchup, edgeIn, edgeOut, homeProjections, awayProjections,
          probData, dailyPick, game, gameSummary, injuryReport,
          homeTeamRoster, awayTeamRoster, homeSeasonalStats, awaySeasonalStats,
          homePlayers, awayPlayers, analysis>>

\* the variables of getGameAnalysis
analysisVars == <<game, gameSummary, injuryReport, homeTeamRoster, awayTeamRoster,
                  homeSeasonalStats, awaySeasonalStats, homePlayers, awayPlayers,
                  analysis>>

----------------------------------------------------------------------------
(* Bounds of the model *)

\* longest roster of the general input space
MaxRoster == 3
\* length of the rosters drawn to exercise a usage core of two players
CoreRoster == 6
\* longest play-type profile of a player
MaxPlayTypes == 2
\* most projections handed to the selector for the home and for the away team
MaxHome == 2
MaxAway == 1
\* most records in the home team's season statistics before the game
MaxSeasonal == 4
\* most home players in the game summary of a game in progress
MaxLive == 2

----------------------------------------------------------------------------
(* Optional values: undefined is <<>>, a present value x is <<x>> *)

Undefined == <<>>
Some(x) == <<x>>
IsDefined(o) == o # <<>>
Get(o) == o[1]

----------------------------------------------------------------------------
(* Exact rational arithmetic standing for the doubles of the code *)

Abs(x) == IF x < 0 THEN -x ELSE x
Sign(x) == IF x < 0 THEN -1 ELSE IF x > 0 THEN 1 ELSE 0
Max(a, b) == IF a >= b THEN a ELSE b
Min(a, b) == IF a <= b THEN a ELSE b

RECURSIVE GCD(_, _)
GCD(a, b) == IF b = 0 THEN a ELSE GCD(b, a % b)

NaN == [n |-> 0, d |-> 0]
IsNaN(x) == x.d = 0 /\ x.n = 0
IsFinite(x) == x.d > 0

\* n/d as a value: reduced, the sign in the numerator; x/0 is NaN or an infinity
Rat(n, d) ==
    IF d = 0 THEN [n |-> Sign(n), d |-> 0]
    ELSE LET g == GCD(Abs(n), Abs(d))
             s == IF d < 0 THEN -1 ELSE 1
         IN  [n |-> s * (n \div g), d |-> Abs(d) \div g]

RInt(k) == [n |-> k, d |-> 1]

RAdd(x, y) ==
    IF x.d = 0 \/ y.d = 0
    THEN (IF IsNaN(x) \/ IsNaN(y) \/ (x.d = 0 /\ y.d = 0 /\ x.n # y.n) THEN NaN
          ELSE IF x.d = 0 THEN x ELSE y)
    ELSE Rat(x.n * y.d + y.n * x.d, x.d * y.d)

RNeg(x) == [n |-> -x.n, d |-> x.d]
RSub(x, y) == RAdd(x, RNeg(y))

RMul(x, y) ==
    IF x.d = 0 \/ y.d = 0
    THEN (IF IsNaN(x) \/ IsNaN(y) \/ x.n = 0 \/ y.n = 0 THEN NaN
          ELSE [n |-> Sign(x.n) * Sign(y.n), d |-> 0])
    ELSE Rat(x.n * y.n, x.d * y.d)

\* x / y of doubles: 0/0 is NaN, x/0 an infinity
RDiv(x, y) ==
    IF x.d = 0 \/ y.d = 0
    THEN (IF IsNaN(x) \/ IsNaN(y) \/ (x.d = 0 /\ y.d = 0) THEN NaN
          ELSE IF y.d = 0 THEN RInt(0) ELSE [n |-> Sign(x.n) * Sign(y.n), d |-> 0])
    ELSE IF y.n = 0 THEN [n |-> Sign(x.n), d |-> 0]
    ELSE Rat(x.n * y.d, x.d * y.n)

\* comparisons of doubles: every comparison with NaN is false
RLess(x, y) ==
    /\ ~IsNaN(x) /\ ~IsNaN(y)
    /\ IF x.d = 0 /\ y.d = 0 THEN x.n < y.n
       ELSE IF x.d = 0 THEN x.n < 0
       ELSE IF y.d = 0 THEN y.n > 0
       ELSE x.n * y.d < y.n * x.d
RGreater(x, y) == RLess(y, x)
RGeq(x, y) == ~IsNaN(x) /\ ~IsNaN(y) /\ ~RLess(x, y)
RLeq(x, y) == RGeq(y, x)
RAbs(x) == [n |-> Abs(x.n), d |-> x.d]

\* a usage share or frequency entered in hundredths, a points value in tenths
Hundredths(k) == Rat(k, 100)
Tenths(k) == Rat(k, 10)

----------------------------------------------------------------------------
(* predictionEngine.ts: constants *)

\* Top 20% of roster, in percent
PARETO_CORE_PERCENTAGE == 20

----------------------------------------------------------------------------
(* calculateParetoAdjustment *)

Ids(r) == {r[i].id : i \in 1..Len(r)}

\* injuries.find(i => i.playerId === id): the first entry of the player
RECURSIVE FindInjury(_, _)
FindInjury(inj, id) ==
    IF inj = <<>> THEN Undefined
    ELSE IF Head(inj).playerId = id THEN Some(Head(inj))
    ELSE FindInjury(Tail(inj), id)

\* [...roster].sort((a, b) => b.usage - a.usage): stable, descending by usage
SortedByUsage(r) ==
    LET before(i, j) == r[i].usage > r[j].usage \/ (r[i].usage = r[j].usage /\ i < j)
        rank(i) == 1 + Cardinality({j \in 1..Len(r) : before(j, i)})
    IN  [k \in 1..Len(r) |-> r[CHOOSE i \in 1..Len(r) : rank(i) = k]]

\* Math.ceil(x) for x = num/100 >= 0
CeilPercent(num) == (num + 99) \div 100

\* a mutant: the core size is rounded down
Top20CountFloor(r) == Max(1, (Len(r) * PARETO_CORE_PERCENTAGE) \div 100)
Top20Count(r) == Max(1, CeilPercent(Len(r) * PARETO_CORE_PERCENTAGE))

ParetoCoreIds(r) ==
    LET s == SortedByUsage(r)
    IN  {s[k].id : k \in 1..Min(Top20Count(r), Len(r))}

\* injury && (injury.status === 'Out' || injury.status === 'Day-To-Day')
IsOutForVolume(inj, id) ==
    LET injury == FindInjury(inj, id)
    IN  IsDefined(injury) /\ Get(injury).status \in {"Out", "Day-To-Day"}

ActivePlayers(r, inj) == SelectSeq(r, LAMBDA p : ~IsOutForVolume(inj, p.id))

RECURSIVE SumUsage(_)
SumUsage(r) == IF r = <<>> THEN 0 ELSE Head(r).usage + SumUsage(Tail(r))

\* totalMissingUsage: the usage of the unavailable players of the core
TotalMissingUsage(r, inj) ==
    SumUsage(SelectSeq(r, LAMBDA p :
        IsOutForVolume(inj, p.id) /\ p.id \in ParetoCoreIds(r)))

TotalActiveUsage(r, inj) == SumUsage(ActivePlayers(r, inj))

\* a mutant: the missing usage is split equally among the active players
NewMultiplierEqualSplit(usage, missing, active, count) ==
    RDiv(RAdd(Hundredths(usage), RDiv(Hundredths(missing), RInt(count))),
         Hundredths(usage))
\* share = usage / totalActiveUsage; extraUsage = totalMissingUsage * share;
\* newMultiplier = (usage + extraUsage) / usage
NewMultiplier(usage, missing, active, count) ==
    LET share == RDiv(Hundredths(usage), Hundredths(active))
        extraUsage == RMul(Hundredths(missing), share)
    IN  RDiv(RAdd(Hundredths(usage), extraUsage), Hundredths(usage))

\* a mutant: the guard on the active usage is dropped
ShouldRedistributeUnguarded(missing, active) == missing > 0
\* if (totalMissingUsage > 0 && totalActiveUsage > 0)
ShouldRedistribute(missing, active) == missing > 0 /\ active > 0

calculateParetoAdjustment(r, inj) ==
    LET missing == TotalMissingUsage(r, inj)
        active == TotalActiveUsage(r, inj)
        count == Len(ActivePlayers(r, inj))
        usageOf(id) == (CHOOSE p \in {r[i] : i \in 1..Len(r)} : p.id = id).usage
    IN  [id \in Ids(r) |->
            IF IsOutForVolume(inj, id) THEN RInt(0)
            ELSE IF ShouldRedistribute(missing, active)
                 THEN NewMultiplier(usageOf(id), missing, active, count)
                 ELSE RInt(1)]

\* the three highest-usage players; true when one of them has status 'Out'
hasParetoPlayerOut(r, inj) ==
    /\ Len(r) # 0
    /\ LET s == SortedByUsage(r)
       IN  \E k \in 1..Min(3, Len(r)) :
              LET injury == FindInjury(inj, s[k].id)
              IN  IsDefined(injury) /\ Get(injury).status = "Out"

----------------------------------------------------------------------------
(* calculateMatchupModifier *)

\* +10% for favorable matchup, -10% for unfavorable matchup (percent)
SYNERGY_BOOST == 10
SYNERGY_PENALTY == 10
\* Top 5 = elite defense, bottom 5 = weak defense
ELITE_DEFENSE_RANK == 5
WEAK_DEFENSE_RANK == 25
\* play types below this frequency (hundredths) are ignored
MIN_FREQUENCY == 15

\* playTypeToDefenseKey; a play type without a key maps to undefined
PlayTypeToDefenseKey(playType) ==
    CASE playType = "Isolation" -> Some("iso")
      [] playType = "PRBallHandler" -> Some("pnr")
      [] playType = "Spotup" -> Some("spotup")
      [] playType = "Transition" -> Some("transition")
      [] playType = "Postup" -> Some("postup")
      [] OTHER -> Undefined

\* a mutant: the frequency threshold is exclusive
IsSkippedStrict(pt) ==
    ~IsDefined(PlayTypeToDefenseKey(pt.playType)) \/ pt.frequency <= MIN_FREQUENCY
\* if (!defenseKey || playType.frequency < 0.15) continue
IsSkipped(pt) ==
    ~IsDefined(PlayTypeToDefenseKey(pt.playType)) \/ pt.frequency < MIN_FREQUENCY

DefenseRank(def, pt) == def.defenseRanks[Get(PlayTypeToDefenseKey(pt.playType))]

\* what one play type adds to totalModifier
PlayTypeModifier(pt, def) ==
    IF IsSkipped(pt) THEN RInt(0)
    ELSE IF DefenseRank(def, pt) <= ELITE_DEFENSE_RANK
         THEN RNeg(RMul(Rat(SYNERGY_PENALTY, 100), Hundredths(pt.frequency)))
    ELSE IF DefenseRank(def, pt) >= WEAK_DEFENSE_RANK
         THEN RMul(Rat(SYNERGY_BOOST, 100), Hundredths(pt.frequency))
    ELSE RInt(0)

\* the reasons one play type pushes
PlayTypeReasons(pt, def) ==
    IF IsSkipped(pt) THEN <<>>
    ELSE IF DefenseRank(def, pt) <= ELITE_DEFENSE_RANK
         THEN << <<"elite", pt.playType, DefenseRank(def, pt)>> >>
    ELSE IF DefenseRank(def, pt) >= WEAK_DEFENSE_RANK
         THEN << <<"weak", pt.playType, DefenseRank(def, pt)>> >>
    ELSE <<>>

RECURSIVE TotalModifier(_, _)
TotalModifier(pts, def) ==
    IF pts = <<>> THEN RInt(0)
    ELSE RAdd(PlayTypeModifier(Head(pts), def), TotalModifier(Tail(pts), def))

RECURSIVE MatchupReasons(_, _)
MatchupReasons(pts, def) ==
    IF pts = <<>> THEN <<>>
    ELSE PlayTypeReasons(Head(pts), def) \o MatchupReasons(Tail(pts), def)

\* reason is the list that the code joins with '. ' ('' when it is empty)
calculateMatchupModifier(playerSynergy, oppDefense) ==
    IF ~IsDefined(playerSynergy) \/ ~IsDefined(oppDefense)
    THEN [modifier |-> RInt(1), reason |-> <<>>]
    ELSE [modifier |-> RAdd(RInt(1), TotalModifier(Get(playerSynergy).playTypes, Get(oppDefense))),
          reason |-> MatchupReasons(Get(playerSynergy).playTypes, Get(oppDefense))]

----------------------------------------------------------------------------
(* calculateEdge *)

\* 10% edge required for value bet (percent)
VALUE_THRESHOLD == 10

\* const isValue = edge >= VALUE_THRESHOLD
IsValue(edge) == RGeq(edge, Rat(VALUE_THRESHOLD, 100))

\* const edge = (projection - vegasLine) / vegasLine
RawEdge(proj, line) == RDiv(RSub(proj, line), line)

\* a mutant: only a line of exactly 0 is refused
LineRefusedZeroOnly(line) == line.n = 0
\* if (vegasLine <= 0)
LineRefused(line) == RLeq(line, RInt(0))

calculateEdge(proj, line) ==
    IF LineRefused(line) THEN [edge |-> RInt(0), isValue |-> FALSE]
    ELSE [edge |-> RMul(RawEdge(proj, line), RInt(100)),
          isValue |-> IsValue(RawEdge(proj, line))]

----------------------------------------------------------------------------
(* Number formatting *)

\* Math.round(x): the nearest integer, halves toward +Infinity
MathRound(x) == (2 * x.n + x.d) \div (2 * x.d)

\* parseFloat(x.toFixed(0)) and parseFloat(x.toFixed(1)): the nearest integer
\* or tenth, halves away from zero; NaN and the infinities pass through
ToFixed0(x) ==
    IF x.d = 0 THEN x
    ELSE RInt(Sign(x.n) * ((2 * Abs(x.n) + x.d) \div (2 * x.d)))
ToFixed1(x) ==
    IF x.d = 0 THEN x
    ELSE Rat(Sign(x.n) * ((20 * Abs(x.n) + x.d) \div (2 * x.d)), 10)

----------------------------------------------------------------------------
(* calculatePlayerProjection *)

\* -15% efficiency when a core player is out, -3% for back-to-back (percent)
PARETO_EFFICIENCY_PENALTY == 15
B2B_PENALTY == 3

\* a mutant: the gate never closes
IsGatedNever(p, inj) == FALSE
\* playerInjury && playerInjury.status === 'Out'
IsGated(p, inj) ==
    LET playerInjury == FindInjury(inj, p.id)
    IN  IsDefined(playerInjury) /\ Get(playerInjury).status = "Out"

\* paretoAdjustments.get(player.id) || 1.0: undefined, 0 and NaN give 1.0
VolumeMultiplier(p, r, inj) ==
    LET paretoAdjustments == calculateParetoAdjustment(r, inj)
    IN  IF p.id \notin DOMAIN paretoAdjustments THEN RInt(1)
        ELSE IF IsNaN(paretoAdjustments[p.id]) \/ paretoAdjustments[p.id] = RInt(0)
             THEN RInt(1)
        ELSE paretoAdjustments[p.id]

\* hasParetoPlayerOut(teamRoster, injuries) && !injuries.find(i => i.playerId === player.id)
PenaltyApplies(p, r, inj) ==
    hasParetoPlayerOut(r, inj) /\ ~IsDefined(FindInjury(inj, p.id))

\* steps 2 to 6: the running projection before it is rounded
RunningProjection(p, def, inj, r, b2b) ==
    LET base == Tenths(p.basePoints)
        volumeMultiplier == VolumeMultiplier(p, r, inj)
        afterVolume == IF RGreater(volumeMultiplier, RInt(1))
                       THEN RMul(base, volumeMultiplier) ELSE base
        afterPenalty == IF PenaltyApplies(p, r, inj)
                        THEN RMul(afterVolume, Rat(100 - PARETO_EFFICIENCY_PENALTY, 100))
                        ELSE afterVolume
        m == calculateMatchupModifier(p.synergyStats, def)
        afterMatchup == IF m.modifier # RInt(1)
                        THEN RMul(afterPenalty, m.modifier) ELSE afterPenalty
    IN  IF b2b THEN RMul(afterMatchup, Rat(100 - B2B_PENALTY, 100)) ELSE afterMatchup

\* the reasons pushed by steps 2 to 6, in the order of the pushes
ProjectionReasons(p, def, inj, r, b2b) ==
    LET volumeMultiplier == VolumeMultiplier(p, r, inj)
        m == calculateMatchupModifier(p.synergyStats, def)
    IN  << <<"base", p.basePoints>> >>
        \o (IF RGreater(volumeMultiplier, RInt(1))
            THEN << <<"volume", ToFixed0(RMul(RSub(volumeMultiplier, RInt(1)), RInt(100))).n>> >>
            ELSE <<>>)
        \o (IF PenaltyApplies(p, r, inj)
            THEN << <<"efficiency", PARETO_EFFICIENCY_PENALTY>> >> ELSE <<>>)
        \o (IF m.modifier # RInt(1) /\ m.reason # <<>> THEN m.reason ELSE <<>>)
        \o (IF b2b THEN << <<"b2b">> >> ELSE <<>>)

\* a mutant: the redistribution does not lower the confidence
ConfidenceWithoutVolume(p, inj, r, b2b) ==
    LET playerInjury == FindInjury(inj, p.id)
        c1 == IF b2b THEN 75 ELSE 85
        c3 == IF IsDefined(playerInjury) /\ Get(playerInjury).status = "Day-To-Day"
              THEN c1 - 20 ELSE c1
    IN  Max(30, Min(95, c3))
\* step 7
Confidence(p, inj, r, b2b) ==
    LET playerInjury == FindInjury(inj, p.id)
        c0 == 85
        c1 == IF b2b THEN c0 - 10 ELSE c0
        c2 == IF RGreater(VolumeMultiplier(p, r, inj), Rat(12, 10)) THEN c1 - 15 ELSE c1
        c3 == IF IsDefined(playerInjury) /\ Get(playerInjury).status = "Day-To-Day"
              THEN c2 - 20 ELSE c2
    IN  Max(30, Min(95, c3))

\* vegasLine ? ... : ...  (undefined, 0 and NaN are falsy)
LineTruthy(line) == IsDefined(line) /\ ~IsNaN(Get(line)) /\ Get(line).n # 0

\* step 8
EdgeResult(projectedPoints, line) ==
    IF LineTruthy(line) THEN calculateEdge(projectedPoints, Get(line))
    ELSE [edge |-> RInt(0), isValue |-> FALSE]

calculatePlayerProjection(p, def, inj, r, b2b, line) ==
    IF IsGated(p, inj)
    THEN [playerId |-> p.id,
          projectedPoints |-> RInt(0),
          confidence |-> 100,
          reason |-> << <<"inactive">> >>,
          isValueBet |-> FALSE,
          edge |-> RInt(0),
          vegasLine |-> line,
          vegasOdd |-> Undefined]
    ELSE LET projectedPoints == RunningProjection(p, def, inj, r, b2b)
             edgeResult == EdgeResult(projectedPoints, line)
         IN  [playerId |-> p.id,
              projectedPoints |-> ToFixed1(projectedPoints),
              confidence |-> Confidence(p, inj, r, b2b),
              reason |-> ProjectionReasons(p, def, inj, r, b2b),
              isValueBet |-> edgeResult.isValue,
              edge |-> ToFixed1(edgeResult.edge),
              vegasLine |-> line,
              vegasOdd |-> Undefined]

----------------------------------------------------------------------------
(* matchProjectionsWithProps *)

\* props.find(p => p.playerId === projection.playerId && p.market === 'points')
RECURSIVE FindProp(_, _)
FindProp(ps, id) ==
    IF ps = <<>> THEN Undefined
    ELSE IF Head(ps).playerId = id /\ Head(ps).market = "points" THEN Some(Head(ps))
    ELSE FindProp(Tail(ps), id)

MatchOne(proj, ps) ==
    LET prop == FindProp(ps, proj.playerId)
    IN  IF ~IsDefined(prop) THEN proj
        ELSE LET edgeResult == calculateEdge(proj.projectedPoints, Get(prop).line)
             IN  [proj EXCEPT !.vegasLine = Some(Get(prop).line),
                              !.vegasOdd = Get(prop).bestOverOdd,
                              !.isValueBet = edgeResult.isValue,
                              !.edge = ToFixed1(edgeResult.edge)]

matchProjectionsWithProps(projs, ps) ==
    [k \in 1..Len(projs) |-> MatchOne(projs[k], ps)]

----------------------------------------------------------------------------
(* gameAnalysis.ts: generateDailyPick *)

\* Minimum edge % for player props and for moneyline
PROP_EDGE_THRESHOLD == 12
MONEYLINE_EDGE_THRESHOLD == 8

\* allProjections: home players then away players, each with its team alias
AllProjections(home, away, homeAlias, awayAlias) ==
    [k \in 1..Len(home) |-> [p |-> home[k], teamAlias |-> homeAlias]]
    \o [k \in 1..Len(away) |-> [p |-> away[k], teamAlias |-> awayAlias]]

\* the statistics the loop checks for one player, in the order of its checks
PlayerCandidates(e) ==
    << [player |-> e, stat |-> "points", edge |-> e.p.edge,
        projection |-> e.p.projection, line |-> e.p.line],
       [player |-> e, stat |-> "assists", edge |-> e.p.assistsEdge,
        projection |-> e.p.assistsProjection, line |-> e.p.assistsLine],
       [player |-> e, stat |-> "rebounds", edge |-> e.p.reboundsEdge,
        projection |-> e.p.reboundsProjection, line |-> e.p.reboundsLine] >>

RECURSIVE Candidates(_)
Candidates(all) ==
    IF all = <<>> THEN <<>>
    ELSE PlayerCandidates(Head(all)) \o Candidates(Tail(all))

\* Math.abs(edge) >= PROP_EDGE_THRESHOLD
Qualifies(c) == RGeq(RAbs(c.edge), RInt(PROP_EDGE_THRESHOLD))

\* a mutant: among equal edges the last one encountered is kept
RECURSIVE ScanBestPropLastTie(_, _)
ScanBestPropLastTie(cs, bestProp) ==
    IF cs = <<>> THEN bestProp
    ELSE LET c == Head(cs)
             takes == Qualifies(c)
                      /\ (~IsDefined(bestProp)
                          \/ RGeq(RAbs(c.edge), RAbs(Get(bestProp).edge)))
         IN  ScanBestPropLastTie(Tail(cs),
                 IF takes
                 THEN Some(c @@ [type |-> IF RGreater(c.edge, RInt(0)) THEN "over" ELSE "under"])
                 ELSE bestProp)
\* if (!bestProp || Math.abs(edge) > Math.abs(bestProp.edge)) bestProp = ...
RECURSIVE ScanBestProp(_, _)
ScanBestProp(cs, bestProp) ==
    IF cs = <<>> THEN bestProp
    ELSE LET c == Head(cs)
             takes == Qualifies(c)
                      /\ (~IsDefined(bestProp)
                          \/ RGreater(RAbs(c.edge), RAbs(Get(bestProp).edge)))
         IN  ScanBestProp(Tail(cs),
                 IF takes
                 THEN Some(c @@ [type |-> IF RGreater(c.edge, RInt(0)) THEN "over" ELSE "under"])
                 ELSE bestProp)

BestProp(home, away, homeAlias, awayAlias) ==
    ScanBestProp(Candidates(AllProjections(home, away, homeAlias, awayAlias)), Undefined)

\* a mutant: the score is not capped at 10
ConfidenceScoreUncapped(x, k) == MathRound(RAdd(RInt(5), RDiv(x, RInt(k))))
\* Math.min(10, Math.round(5 + x / k))
ConfidenceScore(x, k) == Min(10, MathRound(RAdd(RInt(5), RDiv(x, RInt(k)))))

PropPick(bestProp) ==
    LET absEdge == RAbs(bestProp.edge)
    IN  [type |-> IF bestProp.type = "over" THEN "prop_over" ELSE "prop_under",
         stat |-> Some(bestProp.stat),
         confidenceScore |-> ConfidenceScore(absEdge, 5),
         edgePercentage |-> ToFixed1(absEdge),
         bookmakerOdd |-> 190,
         projection |-> Some(bestProp.projection),
         line |-> Some(bestProp.line),
         playerName |-> Some(bestProp.player.p.playerName),
         teamAlias |-> bestProp.player.teamAlias]

\* const homeImpliedProb = probData.homeWinProb >= 50 ? 58 : 45
HomeImpliedProb(prob) == IF RGeq(prob.homeWinProb, RInt(50)) THEN 58 ELSE 45
\* a mutant: the away side gets 58 or 45 by its own win probability
AwayImpliedProbPerSide(prob) ==
    IF RGeq(RSub(RInt(100), prob.homeWinProb), RInt(50)) THEN 58 ELSE 45
\* const awayImpliedProb = 100 - homeImpliedProb
AwayImpliedProb(prob) == 100 - HomeImpliedProb(prob)
HomeEdge(prob) == RSub(prob.homeWinProb, RInt(HomeImpliedProb(prob)))
AwayEdge(prob) == RSub(RSub(RInt(100), prob.homeWinProb), RInt(AwayImpliedProb(prob)))

MoneylinePick(edge, alias, odd) ==
    [type |-> "moneyline_value",
     stat |-> Undefined,
     confidenceScore |-> ConfidenceScore(edge, 4),
     edgePercentage |-> ToFixed1(edge),
     bookmakerOdd |-> odd,
     projection |-> Undefined,
     line |-> Undefined,
     playerName |-> Undefined,
     teamAlias |-> alias]

\* a mutant: the moneyline is looked at before the props
generateDailyPickMoneylineFirst(home, away, homeAlias, awayAlias, prob) ==
    LET bestProp == BestProp(home, away, homeAlias, awayAlias)
    IN  IF RGeq(HomeEdge(prob), RInt(MONEYLINE_EDGE_THRESHOLD))
        THEN Some(MoneylinePick(HomeEdge(prob), homeAlias,
                  IF RGeq(prob.homeWinProb, RInt(60)) THEN 165 ELSE 185))
        ELSE IF RGeq(AwayEdge(prob), RInt(MONEYLINE_EDGE_THRESHOLD))
        THEN Some(MoneylinePick(AwayEdge(prob), awayAlias,
                  IF RGeq(RSub(RInt(100), prob.homeWinProb), RInt(60)) THEN 165 ELSE 210))
        ELSE IF IsDefined(bestProp) THEN Some(PropPick(Get(bestProp)))
        ELSE Undefined

\* null is Undefined
generateDailyPick(home, away, homeAlias, awayAlias, prob) ==
    LET bestProp == BestProp(home, away, homeAlias, awayAlias)
    IN  IF IsDefined(bestProp) THEN Some(PropPick(Get(bestProp)))
        ELSE IF RGeq(HomeEdge(prob), RInt(MONEYLINE_EDGE_THRESHOLD))
        THEN Some(MoneylinePick(HomeEdge(prob), homeAlias,
                  IF RGeq(prob.homeWinProb, RInt(60)) THEN 165 ELSE 185))
        ELSE IF RGeq(AwayEdge(prob), RInt(MONEYLINE_EDGE_THRESHOLD))
        THEN Some(MoneylinePick(AwayEdge(prob), awayAlias,
                  IF RGeq(RSub(RInt(100), prob.homeWinProb), RInt(60)) THEN 165 ELSE 210))
        ELSE Undefined

----------------------------------------------------------------------------
(* Player names: a string is the sequence of its UTF-16 code units *)

Whitespace == " "
\* U+0301, the combining mark that NFD splits off an accented letter
CombiningAcute == "U+0301"
\* the two code units of the warning sign appended to a Day-To-Day player
WarningSign == <<"U+26A0", "U+FE0F">>

\* String.prototype.charCodeAt for the characters used
CharCode(c) ==
    CASE c = " " -> 32 [] c = "'" -> 39 [] c = "." -> 46
      [] c = "A" -> 65 [] c = "B" -> 66 [] c = "C" -> 67 [] c = "I" -> 73
      [] c = "J" -> 74
      [] c = "a" -> 97 [] c = "b" -> 98 [] c = "c" -> 99 [] c = "i" -> 105
      [] c = "j" -> 106 [] c = "l" -> 108 [] c = "o" -> 111 [] c = "r" -> 114
      [] c = "t" -> 116 [] c = "u" -> 117 [] c = "z" -> 122
      [] c = "u-acute" -> 250
      [] c = "U+0301" -> 769 [] c = "U+26A0" -> 9888 [] c = "U+FE0F" -> 65039

\* toLowerCase, one character
LowerChar(c) ==
    CASE c = "A" -> "a" [] c = "B" -> "b" [] c = "C" -> "c" [] c = "I" -> "i"
      [] c = "J" -> "j" [] OTHER -> c

\* normalize('NFD'), one character: an accented letter becomes letter + mark
DecomposeChar(c) == IF c = "u-acute" THEN <<"u", CombiningAcute>> ELSE <<c>>

toLowerCase(str) == [k \in 1..Len(str) |-> LowerChar(str[k])]
RECURSIVE normalizeNFD(_)
normalizeNFD(str) ==
    IF str = <<>> THEN <<>> ELSE DecomposeChar(Head(str)) \o normalizeNFD(Tail(str))
\* .replace(/[\u0300-\u036f]/g, '')
RemoveAccents(str) == SelectSeq(str, LAMBDA c : c # CombiningAcute)
\* .replace(/[.']/g, '')
RemoveDotsAndApostrophes(str) == SelectSeq(str, LAMBDA c : c \notin {".", "'"})

RECURSIVE TrimEnd(_)
TrimEnd(str) ==
    IF str # <<>> /\ str[Len(str)] = Whitespace
    THEN TrimEnd(SubSeq(str, 1, Len(str) - 1)) ELSE str
RECURSIVE TrimStart(_)
TrimStart(str) ==
    IF str # <<>> /\ Head(str) = Whitespace THEN TrimStart(Tail(str)) ELSE str
trim(str) == TrimStart(TrimEnd(str))

\* .replace(/\s+(jr|sr|ii|iii|iv|v)$/i, ''): a generational suffix at the end,
\* with the white space before it
Suffixes == {<<"j", "r">>, <<"s", "r">>, <<"i", "i">>, <<"i", "i", "i">>,
             <<"i", "v">>, <<"v">>}
HasSuffix(str, t) ==
    /\ Len(str) > Len(t)
    /\ SubSeq(str, Len(str) - Len(t) + 1, Len(str)) = t
    /\ str[Len(str) - Len(t)] = Whitespace
RemoveSuffix(str) ==
    IF \E t \in Suffixes : HasSuffix(toLowerCase(str), t)
    THEN LET t == CHOOSE t \in Suffixes : HasSuffix(toLowerCase(str), t)
         IN  TrimEnd(SubSeq(str, 1, Len(str) - Len(t)))
    ELSE str

normalizeName(name) ==
    trim(RemoveSuffix(RemoveDotsAndApostrophes(RemoveAccents(normalizeNFD(
        toLowerCase(name))))))

----------------------------------------------------------------------------
(* Map<K, V>: the entries in insertion order *)

MapHas(m, k) == \E i \in 1..Len(m) : m[i].key = k
\* Map.prototype.get: undefined for a key that is not there
MapGet(m, k) ==
    IF MapHas(m, k) THEN Some(m[CHOOSE i \in 1..Len(m) : m[i].key = k].value)
    ELSE Undefined
\* Map.prototype.set: a present key keeps its place and takes the new value
MapSet(m, k, v) ==
    IF MapHas(m, k)
    THEN [i \in 1..Len(m) |-> IF m[i].key = k THEN [key |-> k, value |-> v] ELSE m[i]]
    ELSE Append(m, [key |-> k, value |-> v])

----------------------------------------------------------------------------
(* generatePlayerProjection and calculateWinProbability (part_006) *)

RECURSIVE nameHash(_)
nameHash(name) == IF name = <<>> THEN 0 ELSE CharCode(Head(name)) + nameHash(Tail(name))

\* ((nameHash % 30) - 15) / 100
varianceFactor(name) == Rat((nameHash(name) % 30) - 15, 100)
\* ((playerIndex % 3) - 1) * 0.5
lineOffset(playerIndex) == Rat(((playerIndex % 3) - 1) * 5, 10)

\* projection, line and edge of one statistic: the average scaled by
\* 1 + varianceFactor * vScale, the line shifted by lineOffset * oScale
StatOf(avg, name, playerIndex, vScale, oScale) ==
    LET proj == RMul(avg, RAdd(RInt(1), RMul(varianceFactor(name), vScale)))
        line == RAdd(avg, RMul(lineOffset(playerIndex), oScale))
        edge == IF RGreater(line, RInt(0))
                THEN RMul(RDiv(RSub(proj, line), line), RInt(100))
                ELSE RInt(0)
    IN  [projection |-> proj, line |-> line, edge |-> edge]

generatePlayerProjection(p, playerIndex) ==
    LET points == StatOf(Tenths(p.ppg), p.name, playerIndex, RInt(1), RInt(1))
        assists == StatOf(Tenths(p.apg), p.name, playerIndex, Rat(8, 10), Rat(3, 10))
        rebounds == StatOf(Tenths(p.rpg), p.name, playerIndex, Rat(7, 10), Rat(4, 10))
        tpg == RMul(Tenths(p.ppg), Rat(8, 100))
        threes == StatOf(tpg, p.name, playerIndex, RInt(1), Rat(2, 10))
        confidence == RAdd(RInt(70), RMul(RDiv(Tenths(p.ppg), RInt(30)), RInt(25)))
    IN  [playerId |-> p.id,
         playerName |-> p.name,
         projection |-> ToFixed1(points.projection),
         line |-> ToFixed1(points.line),
         edge |-> ToFixed1(points.edge),
         assistsProjection |-> ToFixed1(assists.projection),
         assistsLine |-> ToFixed1(assists.line),
         assistsEdge |-> ToFixed1(assists.edge),
         reboundsProjection |-> ToFixed1(rebounds.projection),
         reboundsLine |-> ToFixed1(rebounds.line),
         reboundsEdge |-> ToFixed1(rebounds.edge),
         threesProjection |-> ToFixed1(threes.projection),
         threesLine |-> ToFixed1(threes.line),
         threesEdge |-> ToFixed1(threes.edge),
         isValueBet |-> \E st \in {points, assists, rebounds, threes} :
                            RGeq(RAbs(st.edge), RInt(10)),
         confidence |-> MathRound(IF RLess(confidence, RInt(95))
                                  THEN confidence ELSE RInt(95))]

\* players.slice(0, 3).reduce((sum, p) => sum + (p?.ppg ?? 0), 0), in tenths
RECURSIVE SumPpg(_)
SumPpg(players) == IF players = <<>> THEN 0 ELSE Head(players).ppg + SumPpg(Tail(players))
Top3Ppg(players) == SumPpg(SubSeq(players, 1, Min(3, Len(players))))

\* calculateWinProbability without the Math.max / Math.min cap of line 172
calculateWinProbabilityUncapped(home, away) ==
    LET homeTop3Ppg == Top3Ppg(home)
        awayTop3Ppg == Top3Ppg(away)
        totalPpg == homeTop3Ppg + awayTop3Ppg
        rawHomeProbability == IF totalPpg > 0 THEN Rat(homeTop3Ppg, totalPpg)
                              ELSE Rat(1, 2)
    IN  [homeWinProb |-> RMul(RAdd(rawHomeProbability, Rat(4, 100)), RInt(100)),
         homeAdvantage |-> 4,
         starPowerDiff |-> homeTop3Ppg - awayTop3Ppg]

calculateWinProbability(home, away) ==
    LET homeTop3Ppg == Top3Ppg(home)
        awayTop3Ppg == Top3Ppg(away)
        totalPpg == homeTop3Ppg + awayTop3Ppg
        rawHomeProbability == IF totalPpg > 0 THEN Rat(homeTop3Ppg, totalPpg)
                              ELSE Rat(1, 2)
        withAdvantage == RAdd(rawHomeProbability, Rat(4, 100))
        capped == IF RLess(withAdvantage, Rat(20, 100)) THEN Rat(20, 100)
                  ELSE IF RGreater(withAdvantage, Rat(80, 100)) THEN Rat(80, 100)
                  ELSE withAdvantage
    IN  [homeWinProb |-> RMul(capped, RInt(100)),
         homeAdvantage |-> 4,
         starPowerDiff |-> homeTop3Ppg - awayTop3Ppg]

\* the reasons of generateReasoning, by kind
generateReasoning(home, away, prob, favoredTeam) ==
    (IF home # <<>> /\ away # <<>>
     THEN IF home[1].ppg > away[1].ppg
          THEN << <<"homeStarLeads", home[1].id, away[1].id>> >>
          ELSE << <<"awayStarLeads", away[1].id, home[1].id>> >>
     ELSE <<>>)
    \o << <<"homeAdvantage", prob.homeAdvantage>> >>
    \o (IF Abs(prob.starPowerDiff) > 50
        THEN << <<"starPower", IF prob.starPowerDiff > 0 THEN "HOME" ELSE "AWAY">> >>
        ELSE <<>>)
    \o << <<"winProbability", favoredTeam,
            ToFixed0(IF favoredTeam = "home" THEN prob.homeWinProb
                     ELSE RSub(RInt(100), prob.homeWinProb))>> >>

----------------------------------------------------------------------------
(* getGameAnalysis (part_006): the rosters and the analysis *)

\* type PlayerStats = { ppg, apg, rpg, name }
PlayerStats(stats) ==
    [ppg |-> stats.ppg, apg |-> stats.apg, rpg |-> stats.rpg, name |-> stats.name]

\* byId.set(id, playerStats); byName.set(normalizeName(stats.name), playerStats)
RECURSIVE BuildInto(_, _)
BuildInto(entries, maps) ==
    IF entries = <<>> THEN maps
    ELSE LET e == Head(entries)
         IN  BuildInto(Tail(entries),
                 [byId |-> MapSet(maps.byId, e.key, PlayerStats(e.value)),
                  byName |-> MapSet(maps.byName, normalizeName(e.value.name),
                                    PlayerStats(e.value))])
buildDualStatsMap(seasonalStats) == BuildInto(seasonalStats, [byId |-> <<>>, byName |-> <<>>])

\* injuries.filter(i => i.teamId === teamId)
TeamInjuries(inj, teamId) == SelectSeq(inj, LAMBDA i : i.teamId = teamId)
\* teamInjuries.find(i => i.playerId === id)
RECURSIVE FindTeamInjury(_, _)
FindTeamInjury(teamInjuries, id) ==
    IF teamInjuries = <<>> THEN Undefined
    ELSE IF Head(teamInjuries).playerId = id THEN Some(Head(teamInjuries))
    ELSE FindTeamInjury(Tail(teamInjuries), id)
\* injury && injury.status === 'Out'
IsFilteredOut(teamInjuries, id) ==
    LET injury == FindTeamInjury(teamInjuries, id)
    IN  IsDefined(injury) /\ Get(injury).status = "Out"
\* isDayToDay ? `${name} (warning sign)` : name
DisplayName(teamInjuries, id, name) ==
    LET injury == FindTeamInjury(teamInjuries, id)
    IN  IF IsDefined(injury) /\ Get(injury).status = "Day-To-Day"
        THEN name \o <<Whitespace>> \o WarningSign ELSE name

\* statsLookup.byId.get(p.id), else statsLookup.byName.get(normalizeName(p.full_name))
SeasonStats(p, statsLookup) ==
    IF IsDefined(MapGet(statsLookup.byId, p.id)) THEN MapGet(statsLookup.byId, p.id)
    ELSE MapGet(statsLookup.byName, normalizeName(p.full_name))

\* seasonStats?.ppg || fallback: undefined statistics and an average of 0 give
\* the fallback (tenths)
OrDefault(seasonStats, field, fallback) ==
    IF IsDefined(seasonStats) /\ Get(seasonStats)[field] # 0
    THEN Get(seasonStats)[field] ELSE fallback

HydratePlayer(p, teamInjuries, statsLookup) ==
    LET seasonStats == SeasonStats(p, statsLookup)
    IN  [id |-> p.id,
         name |-> DisplayName(teamInjuries, p.id, p.full_name),
         ppg |-> OrDefault(seasonStats, "ppg", 120),
         apg |-> OrDefault(seasonStats, "apg", 20),
         rpg |-> OrDefault(seasonStats, "rpg", 30)]

hydrateGameSummaryPlayers(players, teamId, statsLookup, inj) ==
    LET teamInjuries == TeamInjuries(inj, teamId)
        kept == SelectSeq(players, LAMBDA p : ~IsFilteredOut(teamInjuries, p.id))
    IN  [k \in 1..Len(kept) |-> HydratePlayer(kept[k], teamInjuries, statsLookup)]

\* players.sort((a, b) => b.ppg - a.ppg): stable, descending by ppg
SortByPpg(players) ==
    LET before(i, j) == \/ players[i].ppg > players[j].ppg
                        \/ (players[i].ppg = players[j].ppg /\ i < j)
        rank(i) == 1 + Cardinality({j \in 1..Len(players) : before(j, i)})
    IN  [k \in 1..Len(players) |-> players[CHOOSE i \in 1..Len(players) : rank(i) = k]]

\* the entries of the map that the loop does not skip
SeasonalKept(statsMap, teamInjuries) ==
    SelectSeq(statsMap, LAMBDA e : ~IsFilteredOut(teamInjuries, e.key))

seasonalStatsToPlayers(statsMap, teamId, inj) ==
    LET teamInjuries == TeamInjuries(inj, teamId)
        kept == SeasonalKept(statsMap, teamInjuries)
    IN  SortByPpg([k \in 1..Len(kept) |->
            [id |-> kept[k].key,
             name |-> DisplayName(teamInjuries, kept[k].key, kept[k].value.name),
             ppg |-> kept[k].value.ppg,
             apg |-> kept[k].value.apg,
             rpg |-> kept[k].value.rpg]])

\* gameSummary && home.players.length > 0 && away.players.length > 0
gameSummaryHasPlayers(summary) ==
    /\ IsDefined(summary)
    /\ Len(Get(summary).home.players) > 0
    /\ Len(Get(summary).away.players) > 0

\* gameSummary && home.players.length > 0
\*   && home.players.some(p => (p.statistics?.points ?? 0) > 0)
gameHasStarted(summary) ==
    /\ IsDefined(summary)
    /\ Len(Get(summary).home.players) > 0
    /\ \E k \in 1..Len(Get(summary).home.players) : Get(summary).home.players[k].points > 0

\* which of the three branches is taken
UsesHydrated(summary, homeStats, awayStats) ==
    /\ gameHasStarted(summary)
    /\ Len(buildDualStatsMap(homeStats).byId) > 0
    /\ Len(buildDualStatsMap(awayStats).byId) > 0
\* a mutant: one team's statistics are enough
UsesSeasonalEither(homeStats, awayStats) == Len(homeStats) > 0 \/ Len(awayStats) > 0
UsesSeasonal(homeStats, awayStats) == Len(homeStats) > 0 /\ Len(awayStats) > 0

\* the two rosters before the final sort; undefined when both sources failed
BuiltPlayers(g, summary, inj, homeStats, awayStats) ==
    IF UsesHydrated(summary, homeStats, awayStats)
    THEN Some([home |-> hydrateGameSummaryPlayers(Get(summary).home.players,
                            Get(summary).home.id, buildDualStatsMap(homeStats), inj),
               away |-> hydrateGameSummaryPlayers(Get(summary).away.players,
                            Get(summary).away.id, buildDualStatsMap(awayStats), inj)])
    ELSE IF UsesSeasonal(homeStats, awayStats)
    THEN Some([home |-> seasonalStatsToPlayers(homeStats, g.home.id, inj),
               away |-> seasonalStatsToPlayers(awayStats, g.away.id, inj)])
    ELSE Undefined

\* a mutant: the rosters are left in the order they were built
FinalOrderAsBuilt(players) == players
\* homePlayers.sort(...); awayPlayers.sort(...)
FinalOrder(players) == SortByPpg(players)

\* homeRoster / awayRoster: identity from the game summary when it has players,
\* else from the team roster; reading a null team roster throws
TeamIdentity(summary, side, teamRoster) ==
    IF gameSummaryHasPlayers(summary)
    THEN Some([teamId |-> Get(summary)[side].id, alias |-> Get(summary)[side].alias])
    ELSE IF IsDefined(teamRoster)
    THEN Some([teamId |-> Get(teamRoster).teamId, alias |-> Get(teamRoster).alias])
    ELSE Undefined

\* homeTopPlayers.map((p, idx) => generatePlayerProjection(p, idx))
TopProjections(players) ==
    [k \in 1..Min(3, Len(players)) |-> generatePlayerProjection(players[k], k - 1)]

\* the returned GameAnalysis
AnalysisOf(homeId, awayId, home, away, homeProjs, awayProjs, prob) ==
    LET favoredTeam == IF RGeq(prob.homeWinProb, RInt(50)) THEN "home" ELSE "away"
    IN  [homeTeam |-> [id |-> homeId.teamId, alias |-> homeId.alias,
                       winProbability |-> prob.homeWinProb, players |-> homeProjs],
         awayTeam |-> [id |-> awayId.teamId, alias |-> awayId.alias,
                       winProbability |-> RSub(RInt(100), prob.homeWinProb),
                       players |-> awayProjs],
         analysis |-> [favoredTeam |-> favoredTeam,
                       reasoning |-> generateReasoning(home, away, prob, favoredTeam)],
         dailyPick |-> generateDailyPick(homeProjs, awayProjs, homeId.alias,
                                         awayId.alias, prob)]

----------------------------------------------------------------------------
(* Input spaces *)

\* Injury['status'] as far as the engine tells the values apart ('Probable'
\* takes every branch 'Questionable' takes); "None" is a player without entry
InjuryStatuses == {"Out", "Day-To-Day", "Questionable"}
StatusChoices == InjuryStatuses \cup {"None"}

UsageVals == {0, 10, 20, 30}
CoreUsageVals == {10, 30}
TeamUsageVals == {0, 30}

MakeRoster(u) == [i \in 1..Len(u) |-> [id |-> i, usage |-> u[i]]]

\* the report holds one entry per injured player (getInjuries pushes one per player)
MakeInjuries(st) ==
    LET all == [i \in 1..Len(st) |-> [playerId |-> i, status |-> st[i]]]
    IN  SelectSeq(all, LAMBDA e : e.status # "None")

SeqsUpTo(S, n) == UNION {[1..k -> S] : k \in 0..n}

NoPlayer == [id |-> 1, basePoints |-> 0, synergyStats |-> Undefined]

\* the values of the variables that a specification does not use
IdleRoster == roster = <<>> /\ injuries = <<>>
IdlePareto == adjustments = <<>> /\ corePlayerOut = FALSE
IdlePlayer ==
    /\ player = NoPlayer /\ opponentDefense = Undefined /\ isB2B = FALSE
    /\ vegasLine = Undefined /\ projection = Undefined
IdleProps == props = <<>> /\ matched = <<>>
IdleMatchup == matchup = Undefined
IdleEdge == edgeIn = Undefined /\ edgeOut = Undefined
IdlePick ==
    /\ homeProjections = <<>> /\ awayProjections = <<>>
    /\ probData = [homeWinProb |-> RInt(50)] /\ dailyPick = Undefined
IdleAnalysis ==
    /\ game = Undefined /\ gameSummary = Undefined /\ injuryReport = <<>>
    /\ homeTeamRoster = Undefined /\ awayTeamRoster = Undefined
    /\ homeSeasonalStats = <<>> /\ awaySeasonalStats = <<>>
    /\ homePlayers = Undefined /\ awayPlayers = Undefined /\ analysis = Undefined

----------------------------------------------------------------------------
(* SpecPareto: calculateParetoAdjustment and hasParetoPlayerOut on every     *)
(* roster of up to MaxRoster players and on rosters of CoreRoster players    *)

InitPareto ==
    /\ pc = "init"
    /\ \/ \E n \in 0..MaxRoster : \E u \in [1..n -> UsageVals] :
            \E st \in [1..n -> StatusChoices] :
              roster = MakeRoster(u) /\ injuries = MakeInjuries(st)
       \/ \E u \in [1..CoreRoster -> CoreUsageVals] :
            \E st \in [1..CoreRoster -> {"None", "Out"}] :
              roster = MakeRoster(u) /\ injuries = MakeInjuries(st)
    /\ IdlePareto /\ IdlePlayer /\ IdleProps /\ IdleMatchup /\ IdleEdge /\ IdlePick
    /\ IdleAnalysis

CallParetoAdjustment ==
    /\ pc = "init"
    /\ pc' = "pareto"
    /\ adjustments' = calculateParetoAdjustment(roster, injuries)
    /\ UNCHANGED <<roster, injuries, corePlayerOut, player, opponentDefense, isB2B,
                   vegasLine, projection, props, matched, matchup, edgeIn, edgeOut,
                   homeProjections, awayProjections, probData, dailyPick>>
    /\ UNCHANGED analysisVars

CallHasParetoPlayerOut ==
    /\ pc = "init"
    /\ pc' = "core"
    /\ corePlayerOut' = hasParetoPlayerOut(roster, injuries)
    /\ UNCHANGED <<roster, injuries, adjustments, player, opponentDefense, isB2B,
                   vegasLine, projection, props, matched, matchup, edgeIn, edgeOut,
                   homeProjections, awayProjections, probData, dailyPick>>
    /\ UNCHANGED analysisVars

NextPareto == CallParetoAdjustment \/ CallHasParetoPlayerOut

SpecPareto == InitPareto /\ [][NextPareto]_vars

----------------------------------------------------------------------------
(* Properties of calculateParetoAdjustment, stated on the inputs *)

\* the player's entry in the report says Out or Day-To-Day
Unavailable(i) ==
    \E k \in 1..Len(injuries) :
        injuries[k].playerId = i /\ injuries[k].status \in {"Out", "Day-To-Day"}

\* the number of players in the usage core: the least k >= 1 with 5k >= roster size
CoreSize == CHOOSE k \in 1..(Len(roster) + 1) :
                /\ 5 * k >= Len(roster)
                /\ \A j \in 1..(k - 1) : 5 * j < Len(roster)

\* the CoreSize highest-usage players, earlier roster places first among equals
UsageCore ==
    {i \in 1..Len(roster) :
        Cardinality({j \in 1..Len(roster) :
            \/ roster[j].usage > roster[i].usage
            \/ (roster[j].usage = roster[i].usage /\ j < i)}) < CoreSize}

RECURSIVE UsageOver(_)
UsageOver(S) ==
    IF S = {} THEN 0
    ELSE LET i == CHOOSE x \in S : TRUE
         IN  roster[i].usage + UsageOver(S \ {i})

Players == 1..Len(roster)
ActiveSet == {i \in Players : ~Unavailable(i)}
MissingCoreUsage == UsageOver({i \in UsageCore : Unavailable(i)})
NonCoreUnavailableUsage == UsageOver({i \in Players \ UsageCore : Unavailable(i)})
ActiveUsage == UsageOver(ActiveSet)

\* the sum over the players of S of usage x multiplier
RECURSIVE ScaledUsageOver(_)
ScaledUsageOver(S) ==
    IF S = {} THEN RInt(0)
    ELSE LET i == CHOOSE x \in S : TRUE
         IN  RAdd(RMul(Hundredths(roster[i].usage), adjustments[i]),
                  ScaledUsageOver(S \ {i}))

\* C2 as stated: for any roster and injury list, the sum over the active players
\* of usage x multiplier equals the total usage minus the usage of the
\* unavailable players outside the usage core
C2_ConservationAnyRoster ==
    pc = "pareto" =>
        ScaledUsageOver(ActiveSet)
            = Hundredths(UsageOver(Players) - NonCoreUnavailableUsage)

\* C3: redistribution triggers only for core losses.  The core is the
\* ceil(rosterSize x 0.2) highest-usage players (at least 1); with no core
\* player unavailable every active player has multiplier 1 even when non-core
\* players are unavailable; every unavailable player has multiplier 0; and the
\* loss of a core player with usage reallocates it to the active players
C3_CoreLossesOnly ==
    pc = "pareto" =>
        /\ Len(roster) > 0 => UsageCore = ParetoCoreIds(roster)
        /\ \A i \in Players : Unavailable(i) => adjustments[i] = RInt(0)
        /\ (\A i \in UsageCore : ~Unavailable(i)) =>
               \A i \in ActiveSet : adjustments[i] = RInt(1)
        /\ (MissingCoreUsage > 0 /\ ActiveUsage > 0) =>
               \A i \in ActiveSet :
                   roster[i].usage > 0 => RGreater(adjustments[i], RInt(1))

\* a roster with a core of two: the second core player is unavailable, and so
\* is a player outside the core in another run of the same size
C3_Witness ==
    /\ pc = "pareto"
    /\ Cardinality(UsageCore) = 2
    /\ \E i \in Players \ UsageCore : Unavailable(i)
    /\ \A i \in UsageCore : ~Unavailable(i)
    /\ \A i \in ActiveSet : adjustments[i] = RInt(1)

\* C4: when missingUsage > 0 and activeUsage > 0 every active player's
\* multiplier is (usage + missingUsage x usage / activeUsage) / usage, that is
\* (activeUsage + missingUsage) / activeUsage for a player with usage > 0 (the
\* quotient is 0/0 for a player with usage 0); usages 0.30 (Out) and 0.20
\* (active) give the active player 2.5
C4_Proportional ==
    pc = "pareto" =>
        /\ (MissingCoreUsage > 0 /\ ActiveUsage > 0) =>
               \A i \in ActiveSet :
                   IF roster[i].usage > 0
                   THEN /\ IsFinite(adjustments[i])
                        /\ adjustments[i].n * ActiveUsage
                             = adjustments[i].d * (ActiveUsage + MissingCoreUsage)
                   ELSE IsNaN(adjustments[i])
        /\ (/\ Len(roster) = 2
            /\ roster[1].usage = 30 /\ roster[2].usage = 20
            /\ Unavailable(1) /\ ~Unavailable(2)) => adjustments[2] = Rat(5, 2)

\* two active players of different usage (0.20 and 0.10) share the 0.30 of the
\* unavailable core player in proportion: both multipliers are 2
C4_Witness ==
    /\ pc = "pareto"
    /\ Len(roster) = 3
    /\ roster[1].usage = 30 /\ roster[2].usage = 20 /\ roster[3].usage = 10
    /\ Unavailable(1) /\ ~Unavailable(2) /\ ~Unavailable(3)
    /\ adjustments[2] = RInt(2) /\ adjustments[3] = RInt(2)

\* C5: the empty roster yields the empty mapping; a roster whose players are
\* all unavailable, or whose active players have total usage 0, yields a
\* multiplier for every player, none of them NaN, all at their defaults (0 for
\* an unavailable player, 1 for an active one)
C5_ZeroDivideSafety ==
    pc = "pareto" =>
        /\ DOMAIN adjustments = Ids(roster)
        /\ Len(roster) = 0 => adjustments = <<>>
        /\ (ActiveSet = {} \/ ActiveUsage = 0) =>
               \A i \in Players :
                   /\ ~IsNaN(adjustments[i])
                   /\ adjustments[i] = IF Unavailable(i) THEN RInt(0) ELSE RInt(1)

\* a core player with usage is unavailable and the active players have usage 0
C5_Witness ==
    /\ pc = "pareto"
    /\ MissingCoreUsage > 0 /\ ActiveSet # {} /\ ActiveUsage = 0
    /\ \A i \in ActiveSet : adjustments[i] = RInt(1)

\* C6 as stated: every multiplier is a defined, finite number >= 0, also when
\* an active player has usage 0, other active players have usage and a core
\* player is unavailable
C6_MultipliersDefined ==
    pc = "pareto" =>
        \A i \in Players : IsFinite(adjustments[i]) /\ adjustments[i].n >= 0

----------------------------------------------------------------------------
(* SpecMatchup: calculateMatchupModifier on profiles of up to MaxPlayTypes   *)
(* play types against defenses ranked around the elite and weak thresholds   *)

PlayTypeNames == {"Isolation", "Spotup", "Cut"}
FrequencyVals == {14, 15, 30}
RankVals == {5, 6, 24, 25, 28}

SynergyProfiles ==
    {Undefined} \cup
    {Some([playTypes |-> pts]) :
        pts \in SeqsUpTo([playType : PlayTypeNames, frequency : FrequencyVals],
                         MaxPlayTypes)}

Defense(iso, spotup) ==
    [alias |-> "OPP",
     defenseRanks |-> [iso |-> iso, pnr |-> 15, spotup |-> spotup,
                       transition |-> 15, postup |-> 15, overall |-> 15]]

DefenseProfiles ==
    {Undefined} \cup {Some(Defense(i, sp)) : i \in RankVals, sp \in RankVals}

InitMatchup ==
    /\ pc = "init"
    /\ \E syn \in SynergyProfiles : player = [NoPlayer EXCEPT !.synergyStats = syn]
    /\ opponentDefense \in DefenseProfiles
    /\ isB2B = FALSE /\ vegasLine = Undefined /\ projection = Undefined
    /\ matchup = Undefined
    /\ IdleRoster /\ IdlePareto /\ IdleProps /\ IdleEdge /\ IdlePick
    /\ IdleAnalysis

CallMatchupModifier ==
    /\ pc = "init"
    /\ pc' = "matchup"
    /\ matchup' = Some(calculateMatchupModifier(player.synergyStats, opponentDefense))
    /\ UNCHANGED <<roster, injuries, adjustments, corePlayerOut, player,
                   opponentDefense, isB2B, vegasLine, projection, props, matched,
                   edgeIn, edgeOut, homeProjections, awayProjections, probData,
                   dailyPick>>
    /\ UNCHANGED analysisVars

NextMatchup == CallMatchupModifier

SpecMatchup == InitMatchup /\ [][NextMatchup]_vars

\* the opponent's rank for a play type, if the defense profile ranks it
HasRank(playType) == playType \in {"Isolation", "PRBallHandler", "Spotup", "Transition", "Postup"}
RankOf(playType) ==
    LET ranks == Get(opponentDefense).defenseRanks
    IN  CASE playType = "Isolation" -> ranks.iso
          [] playType = "PRBallHandler" -> ranks.pnr
          [] playType = "Spotup" -> ranks.spotup
          [] playType = "Transition" -> ranks.transition
          [] playType = "Postup" -> ranks.postup

\* what the k-th play type of the profile contributes, in thousandths
ContributionOf(k) ==
    LET pt == Get(player.synergyStats).playTypes[k]
    IN  IF pt.frequency < 15 \/ ~HasRank(pt.playType) THEN 0
        ELSE IF RankOf(pt.playType) <= 5 THEN -pt.frequency
        ELSE IF RankOf(pt.playType) >= 25 THEN pt.frequency
        ELSE 0

RECURSIVE ContributionsUpTo(_)
ContributionsUpTo(k) == IF k = 0 THEN 0 ELSE ContributionOf(k) + ContributionsUpTo(k - 1)

\* C7: the modifier is 1 plus, over the play types with frequency >= 0.15,
\* -0.10 x frequency against a rank <= 5, +0.10 x frequency against a rank
\* >= 25 and nothing in between; play types below 0.15 add nothing; without a
\* profile or a defense the modifier is exactly 1 with no reasons; spot-up 0.30
\* against rank 28 adds 0.03
C7_MatchupModifier ==
    pc = "matchup" =>
        IF ~IsDefined(player.synergyStats) \/ ~IsDefined(opponentDefense)
        THEN Get(matchup).modifier = RInt(1) /\ Get(matchup).reason = <<>>
        ELSE /\ Get(matchup).modifier
                  = Rat(1000 + ContributionsUpTo(Len(Get(player.synergyStats).playTypes)),
                        1000)
             /\ (/\ Get(player.synergyStats).playTypes
                       = <<[playType |-> "Spotup", frequency |-> 30]>>
                 /\ Get(opponentDefense).defenseRanks.spotup = 28)
                    => Get(matchup).modifier = Rat(103, 100)

\* spot-up 0.30 against rank 28 next to an isolation share of 0.14 that an
\* elite isolation defense leaves alone: the modifier is 1.03
C7_Witness ==
    /\ pc = "matchup"
    /\ IsDefined(player.synergyStats) /\ IsDefined(opponentDefense)
    /\ Get(player.synergyStats).playTypes
         = <<[playType |-> "Spotup", frequency |-> 30],
             [playType |-> "Isolation", frequency |-> 14]>>
    /\ Get(opponentDefense).defenseRanks.spotup = 28
    /\ Get(opponentDefense).defenseRanks.iso = 5
    /\ Get(matchup).modifier = Rat(103, 100)

----------------------------------------------------------------------------
(* SpecEdge: the edge against a market line: calculateEdge, and              *)
(* calculatePlayerProjection and matchProjectionsWithProps for a player      *)
(* without teammates, injuries, matchup data or back-to-back                 *)

EdgeProjections == 170..230 \cup {281, 300}
EdgeLines == {-10, 0, 200, 265}

PointsProp(id, line) ==
    [playerId |-> id, market |-> "points", line |-> Tenths(line),
     bestOverOdd |-> Some(190)]
AssistsProp(id, line) ==
    [playerId |-> id, market |-> "assists", line |-> Tenths(line),
     bestOverOdd |-> Undefined]

PropLists(line) ==
    { <<>>,
      <<PointsProp(1, line)>>,
      <<AssistsProp(1, line), PointsProp(2, line)>>,
      <<AssistsProp(1, line), PointsProp(1, line), PointsProp(1, 0)>> }

InitEdge ==
    /\ pc = "init"
    /\ \E p \in EdgeProjections : \E l \in EdgeLines : \E supplied \in BOOLEAN :
          /\ edgeIn = Some([projection |-> Tenths(p), vegasLine |-> Tenths(l)])
          /\ player = [NoPlayer EXCEPT !.basePoints = p]
          /\ vegasLine = IF supplied THEN Some(Tenths(l)) ELSE Undefined
          /\ props \in PropLists(l)
    /\ opponentDefense = Undefined /\ isB2B = FALSE /\ projection = Undefined
    /\ matched = <<>> /\ edgeOut = Undefined
    /\ IdleRoster /\ IdlePareto /\ IdleMatchup /\ IdlePick
    /\ IdleAnalysis

CallCalculateEdge ==
    /\ pc = "init"
    /\ pc' = "edge"
    /\ edgeOut' = Some(calculateEdge(Get(edgeIn).projection, Get(edgeIn).vegasLine))
    /\ UNCHANGED <<roster, injuries, adjustments, corePlayerOut, player,
                   opponentDefense, isB2B, vegasLine, projection, props, matched,
                   matchup, edgeIn, homeProjections, awayProjections, probData,
                   dailyPick>>
    /\ UNCHANGED analysisVars

CallPlayerProjection ==
    /\ pc = "init"
    /\ pc' = "projected"
    /\ projection' = Some(calculatePlayerProjection(player, opponentDefense, injuries,
                                                    roster, isB2B, vegasLine))
    /\ UNCHANGED <<roster, injuries, adjustments, corePlayerOut, player,
                   opponentDefense, isB2B, vegasLine, props, matched, matchup,
                   edgeIn, edgeOut, homeProjections, awayProjections, probData,
                   dailyPick>>
    /\ UNCHANGED analysisVars

\* the projections are matched with the props after they were computed
CallMatchProjectionsWithProps ==
    /\ pc = "projected"
    /\ pc' = "matched"
    /\ matched' = matchProjectionsWithProps(<<Get(projection)>>, props)
    /\ UNCHANGED <<roster, injuries, adjustments, corePlayerOut, player,
                   opponentDefense, isB2B, vegasLine, projection, props, matchup,
                   edgeIn, edgeOut, homeProjections, awayProjections, probData,
                   dailyPick>>
    /\ UNCHANGED analysisVars

NextEdge == CallCalculateEdge \/ CallPlayerProjection \/ CallMatchProjectionsWithProps

SpecEdge == InitEdge /\ [][NextEdge]_vars

\* the arguments of calculateEdge, in tenths
EdgeP == (Get(edgeIn).projection.n * 10) \div Get(edgeIn).projection.d
EdgeL == (Get(edgeIn).vegasLine.n * 10) \div Get(edgeIn).vegasLine.d

\* |projection - line| / line >= 10%
TenPercentOff(proj, line) == 10 * Abs(proj - line) >= line

\* x, a number with one decimal, is the exact edge 100 (proj - line) / line
\* rounded to one decimal
IsRoundedEdge(x, proj, line) ==
    /\ IsFinite(x) /\ 10 % x.d = 0
    /\ 2 * Abs(1000 * (proj - line) - (x.n * (10 \div x.d)) * line) <= line

\* the points prop that matchProjectionsWithProps finds for player 1
FoundProp == {k \in 1..Len(props) :
                 /\ props[k].playerId = 1 /\ props[k].market = "points"
                 /\ \A j \in 1..(k - 1) :
                       ~(props[j].playerId = 1 /\ props[j].market = "points")}

\* C8 as stated: for a line > 0 the value-bet flag of calculateEdge, and the
\* isValueBet that calculatePlayerProjection and matchProjectionsWithProps
\* store, is true exactly when the edge is at least 10% in absolute value;
\* (28.1, 26.5) is not flagged and (30.0, 26.5) is
C8_ValueFlagAbsolute ==
    /\ (pc = "edge" /\ EdgeL > 0) =>
           /\ Get(edgeOut).isValue <=> TenPercentOff(EdgeP, EdgeL)
           /\ (EdgeP = 281 /\ EdgeL = 265) => ~Get(edgeOut).isValue
           /\ (EdgeP = 300 /\ EdgeL = 265) => Get(edgeOut).isValue
    /\ (pc = "projected" /\ IsDefined(vegasLine) /\ EdgeL > 0) =>
           (Get(projection).isValueBet <=> TenPercentOff(player.basePoints, EdgeL))
    /\ (pc = "matched" /\ FoundProp # {} /\ EdgeL > 0) =>
           \A k \in FoundProp :
               props[k].line = Tenths(EdgeL) =>
                   (matched[1].isValueBet <=> TenPercentOff(player.basePoints, EdgeL))

----------------------------------------------------------------------------
(* SpecProjection: calculatePlayerProjection for the first or the last       *)
(* player of a roster of 1..MaxRoster players                                *)

BasePointsVals == {200}
ProjectionLines == {Undefined, Some(Tenths(0)), Some(Tenths(170)), Some(Tenths(200))}

SpotupProfile == Some([playTypes |-> <<[playType |-> "Spotup", frequency |-> 30]>>])
BalancedProfile ==
    Some([playTypes |-> <<[playType |-> "Isolation", frequency |-> 30],
                          [playType |-> "Spotup", frequency |-> 30]>>])

\* no data; a weak spot-up defense (modifier 1.03); an elite isolation and a
\* weak spot-up defense that cancel (modifier 1 with two reasons)
SynergyDefensePairs ==
    { <<Undefined, Undefined>>,
      <<SpotupProfile, Some(Defense(15, 28))>>,
      <<BalancedProfile, Some(Defense(5, 28))>> }

InitProjection ==
    /\ pc = "init"
    /\ \E n \in 1..MaxRoster : \E u \in [1..n -> TeamUsageVals] :
         \E who \in {1, n} : \E st \in [1..n -> StatusChoices] :
         \E b \in BasePointsVals : \E sd \in SynergyDefensePairs :
            /\ \A i \in 1..n : i # who => st[i] # "Questionable"
            /\ roster = MakeRoster(u)
            /\ injuries = MakeInjuries(st)
            /\ player = [id |-> who, basePoints |-> b, synergyStats |-> sd[1]]
            /\ opponentDefense = sd[2]
    /\ isB2B \in BOOLEAN
    /\ vegasLine \in ProjectionLines
    /\ projection = Undefined
    /\ IdlePareto /\ IdleProps /\ IdleMatchup /\ IdleEdge /\ IdlePick
    /\ IdleAnalysis

NextProjection == CallPlayerProjection

SpecProjection == InitProjection /\ [][NextProjection]_vars

\* the status that the injury report gives the projected player, if any
OwnStatus(status) ==
    \E k \in 1..Len(injuries) :
        injuries[k].playerId = player.id /\ injuries[k].status = status

\* C1: a player whose status is Out gets projectedPoints 0, confidence 100,
\* edge 0 and no value-bet flag, whatever the roster, the other injuries, the
\* opponent defense, the back-to-back flag and the market line are
C1_OutGate ==
    (pc = "projected" /\ OwnStatus("Out")) =>
        /\ Get(projection).projectedPoints = RInt(0)
        /\ Get(projection).confidence = 100
        /\ Get(projection).edge = RInt(0)
        /\ Get(projection).isValueBet = FALSE

\* an Out player on a back-to-back, with matchup data, a teammate who is Out
\* too and a line 15% below the season average
C1_Witness ==
    /\ pc = "projected" /\ OwnStatus("Out")
    /\ isB2B /\ IsDefined(opponentDefense) /\ vegasLine = Some(Tenths(170))
    /\ player.basePoints = 200
    /\ \E k \in 1..Len(injuries) :
          injuries[k].playerId # player.id /\ injuries[k].status = "Out"
    /\ Get(projection).projectedPoints = RInt(0)

----------------------------------------------------------------------------
(* SpecPick: generateDailyPick on up to MaxHome home and MaxAway away        *)
(* projections and win probabilities around the moneyline thresholds         *)

\* edges (tenths of a percent) of points, assists, rebounds and threes
EdgeProfiles ==
    { <<0, 0, 0, 0>>,
      <<119, -119, 50, 0>>,
      <<140, 0, 0, 0>>,
      <<-120, 0, 140, 0>>,
      <<0, -280, 0, 0>>,
      <<-140, 140, 0, 0>>,
      <<0, 0, 0, 150>> }

\* homeWinProb, in tenths of a percent, within the clamp [20, 80]
WinProbVals == {200, 370, 500, 540, 660, 800}

\* a line of 20.0 and the projection that has the given edge against it
StatLine == Tenths(200)
StatProjection(e) == ToFixed1(RMul(StatLine, RAdd(RInt(1), Rat(e, 1000))))

MakeProjection(name, e) ==
    [playerName |-> name,
     projection |-> StatProjection(e[1]), line |-> StatLine, edge |-> Tenths(e[1]),
     assistsProjection |-> StatProjection(e[2]), assistsLine |-> StatLine,
     assistsEdge |-> Tenths(e[2]),
     reboundsProjection |-> StatProjection(e[3]), reboundsLine |-> StatLine,
     reboundsEdge |-> Tenths(e[3]),
     threesProjection |-> StatProjection(e[4]), threesLine |-> StatLine,
     threesEdge |-> Tenths(e[4])]

TeamProjections(alias, es) == [k \in 1..Len(es) |-> MakeProjection(<<alias, k>>, es[k])]

InitPick ==
    /\ pc = "init"
    /\ \E es \in SeqsUpTo(EdgeProfiles, MaxHome) :
          homeProjections = TeamProjections("HOME", es)
    /\ \E es \in SeqsUpTo(EdgeProfiles, MaxAway) :
          awayProjections = TeamProjections("AWAY", es)
    /\ \E w \in WinProbVals : probData = [homeWinProb |-> Tenths(w)]
    /\ dailyPick = Undefined
    /\ IdleRoster /\ IdlePareto /\ IdlePlayer /\ IdleProps /\ IdleMatchup /\ IdleEdge
    /\ IdleAnalysis

CallGenerateDailyPick ==
    /\ pc = "init"
    /\ pc' = "picked"
    /\ dailyPick' = generateDailyPick(homeProjections, awayProjections,
                                      "HOME", "AWAY", probData)
    /\ UNCHANGED <<roster, injuries, adjustments, corePlayerOut, player,
                   opponentDefense, isB2B, vegasLine, projection, props, matched,
                   matchup, edgeIn, edgeOut, homeProjections, awayProjections,
                   probData>>
    /\ UNCHANGED analysisVars

NextPick == CallGenerateDailyPick

SpecPick == InitPick /\ [][NextPick]_vars

\* the projections handed to the selector
PassedProjections ==
    {homeProjections[k] : k \in 1..Len(homeProjections)}
        \cup {awayProjections[k] : k \in 1..Len(awayProjections)}

AtLeast12(x) == x.d > 0 /\ Abs(x.n) >= 12 * x.d

\* some projection has a points, assists or rebounds edge of at least 12
SomePropQualifies ==
    \E q \in PassedProjections :
        AtLeast12(q.edge) \/ AtLeast12(q.assistsEdge) \/ AtLeast12(q.reboundsEdge)

\* the moneyline edge (tenths of a percent) of the home side
HomeMoneylineEdge ==
    LET w == (probData.homeWinProb.n * 10) \div probData.homeWinProb.d
    IN  IF w >= 500 THEN w - 580 ELSE w - 450

\* C10: whenever a projection has a points, assists or rebounds edge of
\* absolute value >= 12 the pick is a prop pick, never a moneyline pick,
\* whatever the win probability and the moneyline edges are
C10_PropsBeforeMoneyline ==
    (pc = "picked" /\ SomePropQualifies) =>
        /\ IsDefined(dailyPick)
        /\ Get(dailyPick).type \in {"prop_over", "prop_under"}

\* P6: a 14% prop edge next to a moneyline edge of at least 8: the prop is picked
C10_Witness ==
    /\ pc = "picked"
    /\ \E q \in PassedProjections : q.edge = RInt(14)
    /\ HomeMoneylineEdge >= 80
    /\ IsDefined(dailyPick) /\ Get(dailyPick).type = "prop_over"
    /\ Get(dailyPick).edgePercentage = RInt(14)

\* the (team, roster place, statistic) pairs in the order of the scan: home
\* before away, roster order, points before assists before rebounds
ScanPairs ==
    {<<1, k, st>> : k \in 1..Len(homeProjections), st \in 1..3}
        \cup {<<2, k, st>> : k \in 1..Len(awayProjections), st \in 1..3}
ScannedBefore(a, b) ==
    \/ a[1] < b[1]
    \/ a[1] = b[1] /\ a[2] < b[2]
    \/ a[1] = b[1] /\ a[2] = b[2] /\ a[3] < b[3]
PairPlayer(a) == IF a[1] = 1 THEN homeProjections[a[2]] ELSE awayProjections[a[2]]
PairStat(a) == <<"points", "assists", "rebounds">>[a[3]]
\* the edge of a pair, in tenths of a percent
PairEdge(a) ==
    LET q == PairPlayer(a)
        x == <<q.edge, q.assistsEdge, q.reboundsEdge>>[a[3]]
    IN  (x.n * 10) \div x.d
\* the pairs with the largest absolute edge among those of at least 12
LargestPairs ==
    {a \in ScanPairs :
        /\ Abs(PairEdge(a)) >= 120
        /\ \A b \in ScanPairs : Abs(PairEdge(b)) <= Abs(PairEdge(a))}

ThreesEdge(q) == (q.threesEdge.n * 10) \div q.threesEdge.d

\* C12: if a player's threes edge has absolute value >= 12 and is the largest
\* qualifying edge of the matchup, the result is a prop pick for that player's
\* threes, never a moneyline pick and never null
C12_ThreesProp ==
    pc = "picked" =>
        \A q \in PassedProjections :
            (/\ Abs(ThreesEdge(q)) >= 120
             /\ \A a \in ScanPairs : Abs(PairEdge(a)) < Abs(ThreesEdge(q))
             /\ \A o \in PassedProjections \ {q} : Abs(ThreesEdge(o)) < Abs(ThreesEdge(q)))
            => /\ IsDefined(dailyPick)
               /\ Get(dailyPick).type \in {"prop_over", "prop_under"}
               /\ Get(dailyPick).stat = Some("threes")
               /\ Get(dailyPick).playerName = Some(q.playerName)

\* the model win probabilities of the two sides, in tenths of a percent
HomeWinTenths == (probData.homeWinProb.n * 10) \div probData.homeWinProb.d
AwayWinTenths == 1000 - HomeWinTenths
\* 58 for a side modelled at 50 or more, 45 otherwise (tenths of a percent)
PerSideImplied(w) == IF w >= 500 THEN 580 ELSE 450
\* the moneyline edge of the away side against 100 minus the home side's
\* implied probability
AwayMoneylineEdge == AwayWinTenths - (1000 - PerSideImplied(HomeWinTenths))
\* the pick is a moneyline pick for the given side
MoneylineFor(alias) ==
    /\ IsDefined(dailyPick)
    /\ Get(dailyPick).type = "moneyline_value"
    /\ Get(dailyPick).teamAlias = alias

AllEdgesBelow12(q) ==
    /\ ~AtLeast12(q.edge) /\ ~AtLeast12(q.assistsEdge)
    /\ ~AtLeast12(q.reboundsEdge) /\ ~AtLeast12(q.threesEdge)

\* C14: the result is null exactly when every projection has all its statistic
\* edges below 12 in absolute value and both moneyline edges are below 8
C14_NoBet ==
    pc = "picked" =>
        (dailyPick = Undefined
            <=> /\ \A q \in PassedProjections : AllEdgesBelow12(q)
                /\ HomeMoneylineEdge < 80
                /\ AwayMoneylineEdge < 80)

----------------------------------------------------------------------------
(* SpecAnalysis: getGameAnalysis on the results its fetches can deliver: the *)
(* game found or not, then the fetched data, then the analysis              *)

BoCruz == <<"B", "o", " ", "C", "r", "u", "z">>
BoCruzJr == BoCruz \o <<" ", "J", "r", ".">>
BoCruzAccent == <<"B", "o", " ", "C", "r", "u-acute", "z">>
AlIto == <<"A", "l", " ", "I", "t", "o">>
CalBoa == <<"C", "a", "l", " ", "B", "o", "a">>

\* season averages (ppg, apg, rpg) in tenths
ZeroLine == <<0, 0, 0>>
MidLine == <<150, 40, 50>>
HighLine == <<250, 60, 0>>

SeasonEntry(id, name, line) ==
    [key |-> id,
     value |-> [id |-> id, name |-> name, ppg |-> line[1], apg |-> line[2], rpg |-> line[3]]]

TheGame == [home |-> [id |-> "HOME"], away |-> [id |-> "AWAY"]]
Roster(teamId, alias) == Some([teamId |-> teamId, alias |-> alias])
Summary(homeLive, awayLive) ==
    Some([home |-> [id |-> "HOME", alias |-> "HOM", players |-> homeLive],
          away |-> [id |-> "AWAY", alias |-> "AWY", players |-> awayLive]])
Live(id, name, points) == [id |-> id, full_name |-> name, points |-> points]
InjuryEntry(id, teamId, status) == [playerId |-> id, teamId |-> teamId, status |-> status]

\* the injury report: what it says of player 1 and of player 2
InjuriesOfFirst ==
    {<<>>, <<InjuryEntry(1, "HOME", "Out")>>, <<InjuryEntry(1, "AWAY", "Out")>>,
     <<InjuryEntry(1, "HOME", "Day-To-Day")>>}
InjuriesOfSecond == {<<>>, <<InjuryEntry(2, "HOME", "Out")>>}

\* the away team's season statistics before the game
AwaySeasonal == {<<>>, <<SeasonEntry(7, CalBoa, ZeroLine)>>, <<SeasonEntry(7, CalBoa, MidLine)>>}
\* the away side of a game in progress: its players in the summary, its statistics
AwayDuringGame ==
    {[live |-> <<Live(7, CalBoa, 0)>>, stats |-> <<SeasonEntry(7, CalBoa, MidLine)>>],
     [live |-> <<>>, stats |-> <<SeasonEntry(7, CalBoa, MidLine)>>],
     [live |-> <<Live(7, CalBoa, 0)>>, stats |-> <<>>]}

\* before the game: the home statistics of players 1..n, each with one of
\* three lines, in any order of scoring
SeasonalNameOf(id) == <<BoCruz, AlIto, CalBoa, BoCruzJr, BoCruzAccent>>[((id - 1) % 5) + 1]
PreGameSeasonal ==
    UNION {{[k \in 1..n |-> SeasonEntry(k, SeasonalNameOf(k), l[k])] :
               l \in [1..n -> {ZeroLine, MidLine, HighLine}]} : n \in 0..MaxSeasonal}
\* the game summary and team rosters that go with a game not yet started
PreGameSources ==
    {[summary |-> Undefined, home |-> Roster("HOME", "HOM"), away |-> Roster("AWAY", "AWY")],
     [summary |-> Undefined, home |-> Undefined, away |-> Roster("AWAY", "AWY")],
     [summary |-> Summary(<<Live(1, BoCruz, 0)>>, <<Live(7, CalBoa, 0)>>),
      home |-> Undefined, away |-> Undefined]}

\* game in progress: the home statistics hold up to two records, whose names
\* may have the same normalized form
LiveSeasonal ==
    {<<>>}
    \cup {<<SeasonEntry(1, n1, l1)>> : n1 \in {BoCruz, BoCruzJr}, l1 \in {ZeroLine, MidLine}}
    \cup {<<SeasonEntry(1, n1, l1), SeasonEntry(2, n2, l2)>> :
             n1 \in {BoCruz, BoCruzJr}, l1 \in {ZeroLine, MidLine},
             n2 \in {BoCruzAccent, AlIto}, l2 \in {MidLine, HighLine}}
\* the home players of the summary: known and unknown identifiers
LivePool == {<<1, BoCruz>>, <<9, BoCruz>>, <<9, AlIto>>, <<2, AlIto>>}
LiveChoices ==
    {c \in UNION {[1..n -> LivePool] : n \in 1..MaxLive} :
        \A i, j \in DOMAIN c : i # j => c[i][1] # c[j][1]}
\* points > 0 for the first player says that the game has started
LiveHome(points) ==
    {[k \in DOMAIN c |-> Live(c[k][1], c[k][2], IF k = 1 THEN points ELSE 0)] :
        c \in LiveChoices}

\* the variables of the engine and of the selector, idle here
engineVars == <<roster, injuries, adjustments, corePlayerOut, player,
                opponentDefense, isB2B, vegasLine, projection, props, matched,
                matchup, edgeIn, edgeOut, homeProjections, awayProjections,
                probData, dailyPick>>

InitAnalysis ==
    /\ pc = "init"
    /\ game \in {Undefined, Some(TheGame)}
    /\ gameSummary = Undefined /\ injuryReport = <<>>
    /\ homeTeamRoster = Undefined /\ awayTeamRoster = Undefined
    /\ homeSeasonalStats = <<>> /\ awaySeasonalStats = <<>>
    /\ homePlayers = Undefined /\ awayPlayers = Undefined /\ analysis = Undefined
    /\ IdleRoster /\ IdlePareto /\ IdlePlayer /\ IdleProps /\ IdleMatchup /\ IdleEdge
    /\ IdlePick

\* schedule.games.find(g => g.id === gameId): null is returned for no game
FindGame ==
    /\ pc = "init"
    /\ pc' = IF IsDefined(game) THEN "found" ELSE "done"
    /\ UNCHANGED analysisVars
    /\ UNCHANGED engineVars

\* await Promise.all([...]) for a game that has not started
FetchBeforeGame ==
    /\ pc = "found"
    /\ pc' = "fetched"
    /\ \E src \in PreGameSources :
          /\ gameSummary' = src.summary
          /\ homeTeamRoster' = src.home
          /\ awayTeamRoster' = src.away
    /\ \E i1 \in InjuriesOfFirst, i2 \in InjuriesOfSecond : injuryReport' = i1 \o i2
    /\ homeSeasonalStats' \in PreGameSeasonal
    /\ awaySeasonalStats' \in AwaySeasonal
    /\ UNCHANGED <<game, homePlayers, awayPlayers, analysis>>
    /\ UNCHANGED engineVars

\* await Promise.all([...]) for a game in progress: the summary lists home
\* players and points have been scored
FetchDuringGame ==
    /\ pc = "found"
    /\ pc' = "fetched"
    /\ \E homeLive \in LiveHome(8), away \in AwayDuringGame :
          /\ gameSummary' = Summary(homeLive, away.live)
          /\ awaySeasonalStats' = away.stats
          /\ \E i1 \in InjuriesOfFirst :
                injuryReport' = [k \in DOMAIN i1 |-> [i1[k] EXCEPT !.playerId = homeLive[1].id]]
    /\ \E present \in BOOLEAN :
          /\ homeTeamRoster' = IF present THEN Roster("HOME", "HOM") ELSE Undefined
          /\ awayTeamRoster' = IF present THEN Roster("AWAY", "AWY") ELSE Undefined
    /\ homeSeasonalStats' \in LiveSeasonal
    /\ UNCHANGED <<game, homePlayers, awayPlayers, analysis>>
    /\ UNCHANGED engineVars

\* the rest of getGameAnalysis, which runs without waiting: the rosters are
\* built and sorted; null is returned when both sources failed, and when
\* reading the identity of a null team roster throws; else the analysis
Analyse ==
    /\ pc = "fetched"
    /\ pc' = "done"
    /\ \E built \in {BuiltPlayers(Get(game), gameSummary, injuryReport,
                                  homeSeasonalStats, awaySeasonalStats)} :
          IF ~IsDefined(built)
          THEN homePlayers' = Undefined /\ awayPlayers' = Undefined
               /\ analysis' = Undefined
          ELSE \E home \in {FinalOrder(Get(built).home)},
                  away \in {FinalOrder(Get(built).away)},
                  homeId \in {TeamIdentity(gameSummary, "home", homeTeamRoster)},
                  awayId \in {TeamIdentity(gameSummary, "away", awayTeamRoster)} :
                  /\ homePlayers' = Some(home)
                  /\ awayPlayers' = Some(away)
                  /\ IF ~IsDefined(homeId) \/ ~IsDefined(awayId)
                     THEN analysis' = Undefined
                     ELSE \E homeProjs \in {TopProjections(home)},
                             awayProjs \in {TopProjections(away)},
                             prob \in {calculateWinProbability(home, away)} :
                             analysis' = Some(AnalysisOf(Get(homeId), Get(awayId), home,
                                                  away, homeProjs, awayProjs, prob))
    /\ UNCHANGED <<game, gameSummary, injuryReport, homeTeamRoster, awayTeamRoster,
                   homeSeasonalStats, awaySeasonalStats>>
    /\ UNCHANGED engineVars

NextAnalysis == FindGame \/ FetchBeforeGame \/ FetchDuringGame \/ Analyse

SpecAnalysis == InitAnalysis /\ [][NextAnalysis]_vars

----------------------------------------------------------------------------
(* Claims about getGameAnalysis *)

Analysed == pc = "done" /\ IsDefined(analysis)
HomeRoster == Get(homePlayers)
AwayRoster == Get(awayPlayers)
HomeWinProb == Get(analysis).homeTeam.winProbability
AwayWinProb == Get(analysis).awayTeam.winProbability

\* the ppg sums, in tenths, of the first three players of the rosters that
\* were analysed
HomeTop3 == Top3Ppg(HomeRoster)
AwayTop3 == Top3Ppg(AwayRoster)
\* (share + 0.04) * 100 * (HomeTop3 + AwayTop3), an integer
SharePlus4Scaled == 100 * HomeTop3 + 4 * (HomeTop3 + AwayTop3)

\* C15: the home win probability of every analysis is
\* clamp(homeTop3 / (homeTop3 + awayTop3) + 0.04, 0.20, 0.80) * 100, with
\* the share 0.5 (hence 54) when both sums are zero; it lies in [20, 80]
\* for every pair of rosters, the empty ones included; and the home and
\* away win probabilities of the analysis sum to exactly 100.
C15_WinProbability ==
    Analysed =>
        /\ RGeq(HomeWinProb, RInt(20)) /\ RLeq(HomeWinProb, RInt(80))
        /\ RAdd(HomeWinProb, AwayWinProb) = RInt(100)
        /\ IF HomeTop3 + AwayTop3 = 0
           THEN HomeWinProb = RInt(54)
           ELSE IF SharePlus4Scaled < 20 * (HomeTop3 + AwayTop3)
           THEN HomeWinProb = RInt(20)
           ELSE IF SharePlus4Scaled > 80 * (HomeTop3 + AwayTop3)
           THEN HomeWinProb = RInt(80)
           ELSE HomeWinProb.n * (HomeTop3 + AwayTop3) = HomeWinProb.d * SharePlus4Scaled

\* an analysis whose home share plus 0.04 exceeds 0.80 and is capped
C15_Witness ==
    /\ Analysed
    /\ HomeTop3 + AwayTop3 > 0
    /\ SharePlus4Scaled > 80 * (HomeTop3 + AwayTop3)
    /\ HomeWinProb = RInt(80)

RostersBuilt == pc = "done" /\ IsDefined(homePlayers)
Hydrated == UsesHydrated(gameSummary, homeSeasonalStats, awaySeasonalStats)
\* the players of the source a roster was built from: the game summary's
\* players when it was hydrated, else the keys of the season statistics
HomeSourceIds ==
    IF Hydrated THEN Ids(Get(gameSummary).home.players)
    ELSE {homeSeasonalStats[k].key : k \in DOMAIN homeSeasonalStats}
AwaySourceIds ==
    IF Hydrated THEN Ids(Get(gameSummary).away.players)
    ELSE {awaySeasonalStats[k].key : k \in DOMAIN awaySeasonalStats}
\* the players the injury report lists with status Out
ReportedOut ==
    {injuryReport[k].playerId : k \in {j \in DOMAIN injuryReport : injuryReport[j].status = "Out"}}

\* C16: no player whose status in the injury report is Out appears in the
\* rosters that getGameAnalysis builds, and every player of the source
\* roster whose status is not Out appears in them.
C16_OutExcluded ==
    RostersBuilt =>
        /\ Ids(HomeRoster) \cap ReportedOut = {}
        /\ Ids(AwayRoster) \cap ReportedOut = {}
        /\ HomeSourceIds \ ReportedOut \subseteq Ids(HomeRoster)
        /\ AwaySourceIds \ ReportedOut \subseteq Ids(AwayRoster)

\* the player of the game summary that a roster entry was hydrated from
LiveOf(live, id) == CHOOSE k \in DOMAIN live : live[k].id = id
\* the season-statistics records with the identifier, and with the
\* normalized name, of a player
IdMatches(stats, id) == {k \in DOMAIN stats : stats[k].key = id}
NameMatches(stats, name) ==
    {k \in DOMAIN stats : normalizeName(stats[k].value.name) = normalizeName(name)}
Averages(p) == <<p.ppg, p.apg, p.rpg>>
DefaultAverages == <<120, 20, 30>>
\* the averages of a hydrated roster are those of the record with the
\* identifier, else of a record with the normalized name, else the defaults
MatchedAverages(players, live, stats) ==
    \A i \in DOMAIN players :
        LET p == players[i]
            name == live[LiveOf(live, p.id)].full_name
        IN  IF IdMatches(stats, p.id) # {}
            THEN \E k \in IdMatches(stats, p.id) : Averages(p) = Averages(stats[k].value)
            ELSE IF NameMatches(stats, name) # {}
            THEN \E k \in NameMatches(stats, name) : Averages(p) = Averages(stats[k].value)
            ELSE Averages(p) = DefaultAverages

\* C17: a live-roster player gets the season averages of the record with
\* the same identifier, else of the record with the same normalized name,
\* and the defaults (12.0, 2.0, 3.0) only when matched by neither; a
\* matched player gets exactly the record's averages, zeros included.
C17_Matching ==
    (RostersBuilt /\ Hydrated) =>
        /\ MatchedAverages(HomeRoster, Get(gameSummary).home.players, homeSeasonalStats)
        /\ MatchedAverages(AwayRoster, Get(gameSummary).away.players, awaySeasonalStats)

\* the players of a hydrated roster that no record matches by identifier and
\* that two or more records match by normalized name get the defaults
AmbiguousUnmatched(players, live, stats) ==
    \A i \in DOMAIN players :
        LET p == players[i]
            name == live[LiveOf(live, p.id)].full_name
        IN  (IdMatches(stats, p.id) = {} /\ Cardinality(NameMatches(stats, name)) >= 2)
                => Averages(p) = DefaultAverages

\* C18: name matching never merges two distinct players: when two season
\* records of a team have the same normalized name, a live-roster player
\* matched by name is treated as unmatched and is not given the statistics
\* of one of them.
C18_NoMerge ==
    (RostersBuilt /\ Hydrated) =>
        /\ AmbiguousUnmatched(HomeRoster, Get(gameSummary).home.players, homeSeasonalStats)
        /\ AmbiguousUnmatched(AwayRoster, Get(gameSummary).away.players, awaySeasonalStats)

SortedByPpg(players) ==
    \A i, j \in DOMAIN players : i < j => players[i].ppg >= players[j].ppg
\* the projected players are the first three of the roster, and nobody left
\* out of them has a higher ppg
TopThreeProjected(players, projected) ==
    /\ Len(projected) = Min(3, Len(players))
    /\ \A k \in DOMAIN projected : projected[k].playerId = players[k].id
    /\ \A k \in DOMAIN projected, j \in DOMAIN players :
           j > Len(projected) => players[k].ppg >= players[j].ppg

\* C19: in every analysis each team's roster is in descending order of
\* points per game when the top players are taken, so the players projected
\* (and summed for the win probability) are its three highest-ppg players.
C19_RosterOrdering ==
    Analysed =>
        /\ SortedByPpg(HomeRoster) /\ SortedByPpg(AwayRoster)
        /\ TopThreeProjected(HomeRoster, Get(analysis).homeTeam.players)
        /\ TopThreeProjected(AwayRoster, Get(analysis).awayTeam.players)

\* an analysis of a game in progress whose summary lists the lower-scoring
\* home player first
C19_Witness ==
    /\ Analysed /\ Hydrated
    /\ Len(HomeRoster) = 2
    /\ HomeRoster[1].id = Get(gameSummary).home.players[2].id
    /\ HomeRoster[1].ppg > HomeRoster[2].ppg

\* C20: when the season statistics of either team are empty (a failed fetch
\* yields the empty map), getGameAnalysis returns null: no rosters are
\* built and no analysis is returned on a roster substituted for them.
C20_RosterUnavailable ==
    (pc = "done" /\ (homeSeasonalStats = <<>> \/ awaySeasonalStats = <<>>)) =>
        /\ analysis = Undefined
        /\ homePlayers = Undefined /\ awayPlayers = Undefined

\* a finished run on a found game with home statistics missing, away
\* statistics present and both team rosters fetched
C20_Witness ==
    /\ pc = "done" /\ IsDefined(game)
    /\ homeSeasonalStats = <<>> /\ awaySeasonalStats # <<>>
    /\ IsDefined(homeTeamRoster) /\ IsDefined(awayTeamRoster)
    /\ analysis = Undefined

----------------------------------------------------------------------------
(* Claims about calculatePlayerProjection on a team: SpecProjection *)

Projected == pc = "projected" /\ ~OwnStatus("Out")
Result == Get(projection)
\* the status the injury report gives a player, "None" without an entry
StatusOf(id) ==
    IF \E k \in 1..Len(injuries) : injuries[k].playerId = id
    THEN injuries[CHOOSE k \in 1..Len(injuries) : injuries[k].playerId = id].status
    ELSE "None"
\* the injury report with the entry of one player removed, or set to a status
WithStatus(id, status) ==
    SelectSeq(injuries, LAMBDA e : e.playerId # id)
    \o (IF status = "None" THEN <<>> ELSE <<[playerId |-> id, status |-> status]>>)
\* the projection of the same player in the run with that other injury report
ResultWith(inj) ==
    calculatePlayerProjection(player, opponentDefense, inj, roster, isB2B, vegasLine)
Toggled(id) == WithStatus(id, IF StatusOf(id) = "None" THEN "Day-To-Day" ELSE "None")

\* C21: changing one player's status between no injury entry and Day-To-Day,
\* all other inputs equal, leaves the projected points and the edge of that
\* player and of every teammate unchanged, and changes no confidence but
\* that player's own.
C21_DayToDayConfidenceOnly ==
    Projected =>
        \A j \in Ids(roster) :
            StatusOf(j) \in {"None", "Day-To-Day"} =>
                /\ ResultWith(Toggled(j)).projectedPoints = Result.projectedPoints
                /\ ResultWith(Toggled(j)).edge = Result.edge
                /\ j # player.id =>
                       ResultWith(Toggled(j)).confidence = Result.confidence

\* the multiplier calculateParetoAdjustment returns for the projected player
OwnMultiplier == calculateParetoAdjustment(roster, injuries)[player.id]
HighVolume == ~IsNaN(OwnMultiplier) /\ 10 * OwnMultiplier.n > 12 * OwnMultiplier.d

\* C22: a player who is not Out gets the confidence 85, minus 10 on a
\* back-to-back, minus 15 with a volume multiplier above 1.2, minus 20 when
\* Day-To-Day, clamped to [30, 95]: an integer in [30, 95].
C22_Confidence ==
    Projected =>
        /\ Result.confidence \in 30..95
        /\ Result.confidence =
              Max(30, Min(95, 85 - (IF isB2B THEN 10 ELSE 0)
                                 - (IF HighVolume THEN 15 ELSE 0)
                                 - (IF OwnStatus("Day-To-Day") THEN 20 ELSE 0)))

\* a back-to-back projection of a player whose multiplier is above 1.2
C22_Witness ==
    /\ Projected /\ isB2B /\ HighVolume
    /\ Result.confidence = 60

\* the factors of steps 4 to 6 of the run
LaterFactors ==
    RMul(RMul(IF PenaltyApplies(player, roster, injuries)
              THEN Rat(100 - PARETO_EFFICIENCY_PENALTY, 100) ELSE RInt(1),
              calculateMatchupModifier(player.synergyStats, opponentDefense).modifier),
         IF isB2B THEN Rat(100 - B2B_PENALTY, 100) ELSE RInt(1))

\* C23: for a player who is not Out, the redistribution step scales the base
\* average by exactly the multiplier that calculateParetoAdjustment returns
\* for the player, whether it is above 1, equal to 1 or below 1.
C23_RedistributionFactor ==
    Projected =>
        Result.projectedPoints =
            ToFixed1(RMul(RMul(Tenths(player.basePoints), OwnMultiplier), LaterFactors))

\* one of the three highest-usage players other than the projected one is Out
CoreTeammateOut ==
    \E k \in 1..Min(3, Len(roster)) :
        /\ SortedByUsage(roster)[k].id # player.id
        /\ StatusOf(SortedByUsage(roster)[k].id) = "Out"
\* the base average after the redistribution step
AfterVolume ==
    IF RGreater(VolumeMultiplier(player, roster, injuries), RInt(1))
    THEN RMul(Tenths(player.basePoints), VolumeMultiplier(player, roster, injuries))
    ELSE Tenths(player.basePoints)
\* the factors of steps 5 and 6 of the run
MatchupAndFatigue ==
    RMul(calculateMatchupModifier(player.synergyStats, opponentDefense).modifier,
         IF isB2B THEN Rat(100 - B2B_PENALTY, 100) ELSE RInt(1))

\* C24: for a player whose own status is not Out the projection is
\* multiplied by 0.85 exactly once if one of the team's three highest-usage
\* players other than this player is Out, and not otherwise; the penalty
\* compounds with a volume multiplier above 1.
C24_CoreLossPenalty ==
    Projected =>
        Result.projectedPoints =
            ToFixed1(RMul(RMul(AfterVolume,
                               IF CoreTeammateOut
                               THEN Rat(100 - PARETO_EFFICIENCY_PENALTY, 100) ELSE RInt(1)),
                          MatchupAndFatigue))

\* the reasons calculateMatchupModifier recorded for the projected player
RecordedMatchupReasons ==
    calculateMatchupModifier(player.synergyStats, opponentDefense).reason

\* C25: for a player who is not Out the reasons are listed in the order
\* base, volume boost, core-loss penalty, matchup, back-to-back fatigue, and
\* every reason calculateMatchupModifier recorded is among them, also when
\* the contributions cancel to a modifier of exactly 1.
C25_AuditableReasons ==
    Projected =>
        Result.reason =
            << <<"base", player.basePoints>> >>
            \o SelectSeq(Result.reason, LAMBDA e : e[1] = "volume")
            \o SelectSeq(Result.reason, LAMBDA e : e[1] = "efficiency")
            \o RecordedMatchupReasons
            \o (IF isB2B THEN << <<"b2b">> >> ELSE <<>>)

----------------------------------------------------------------------------
(* Further claims about generateDailyPick: SpecPick *)

Picked == pc = "picked" /\ IsDefined(dailyPick)
Pick == Get(dailyPick)
IsPropPick == Pick.type \in {"prop_over", "prop_under"}
\* Math.round(5 + e / k) for an edge e >= 0 given in tenths of a percent
RoundedScore(e, k) == (e + 50 * k + 5 * k) \div (10 * k)
\* the moneyline edge, in tenths of a percent, of the side that was picked
PickedMoneylineEdge ==
    IF Pick.teamAlias = "HOME" THEN HomeMoneylineEdge ELSE AwayMoneylineEdge

PickedWinTenths == IF Pick.teamAlias = "HOME" THEN HomeWinTenths ELSE AwayWinTenths

\* C28: a moneyline pick is only produced for the side the model favours:
\* the picked team's model win probability is strictly greater than 50, for
\* every homeWinProb in [20, 80]; none is produced at exactly 50/50.
C28_MoneylineFavouredSide ==
    (Picked /\ Pick.type = "moneyline_value") => PickedWinTenths > 500

----------------------------------------------------------------------------
(* Further claims about getGameAnalysis: SpecAnalysis *)

\* the injury report without its k-th entry
WithoutEntry(k) == [i \in 1..(Len(injuryReport) - 1) |->
                       IF i < k THEN injuryReport[i] ELSE injuryReport[i + 1]]
\* the home projections of the run on another injury report, all else equal
HomeProjectionsWith(inj) ==
    TopProjections(FinalOrder(Get(BuiltPlayers(Get(game), gameSummary, inj,
                                  homeSeasonalStats, awaySeasonalStats)).home))
\* the projection, line and edge of every statistic of a projection
Numbers(q) ==
    <<q.projection, q.line, q.edge,
      q.assistsProjection, q.assistsLine, q.assistsEdge,
      q.reboundsProjection, q.reboundsLine, q.reboundsEdge,
      q.threesProjection, q.threesLine, q.threesEdge>>

\* C27: a player's projections, lines and edges do not depend on whether the
\* player is Day-To-Day: the run in which the player has no injury entry
\* instead, all else equal, yields the same values for every statistic.
C27_DayToDayIndependence ==
    Analysed =>
        \A k \in DOMAIN injuryReport :
            injuryReport[k].status = "Day-To-Day" =>
                LET here == Get(analysis).homeTeam.players
                    there == HomeProjectionsWith(WithoutEntry(k))
                IN  /\ Len(here) = Len(there)
                    /\ \A i \in DOMAIN here :
                          /\ here[i].playerId = there[i].playerId
                          /\ Numbers(here[i]) = Numbers(there[i])

\* C29: whenever the season statistics of both teams of a scheduled game
\* are non-empty, getGameAnalysis returns an analysis and not null, whatever
\* the other fetches delivered (no game summary or one without players, a
\* null team roster, no injuries).
C29_AnalysisWithStatistics ==
    (pc = "done" /\ IsDefined(game)
        /\ homeSeasonalStats # <<>> /\ awaySeasonalStats # <<>>) =>
        IsDefined(analysis)

----------------------------------------------------------------------------
(* The penalty and the boost of calculatePlayerProjection: SpecProjection *)

\* C30: whenever calculatePlayerProjection applies the 0.85 penalty to a
\* player, the multiplier calculateParetoAdjustment returns for that player
\* is greater than 1: the Out player behind the penalty is a member of the
\* usage core whose usage is redistributed.
C30_PenaltyImpliesBoost ==
    (Projected /\ PenaltyApplies(player, roster, injuries)) =>
        RGreater(OwnMultiplier, RInt(1))

====
